---- MODULE Spec2Model ----
(***************************************************************************)
(* A model of the cube codecs: the RARC archive encoder and decoder        *)
(* (cube/src/rarc.rs), the BMG message archive (cube/src/bmg.rs) and the   *)
(* BTI texture block decoders (cube/src/bti.rs).                           *)
(*                                                                         *)
(* Bytes are the integers 0..255, byte strings and names are sequences of  *)
(* bytes, and a Rust index i is the TLA+ index i+1.  TLC's integers are 32 *)
(* bits wide and signed, so a u32 is held as the integer with the same bit *)
(* pattern: u32::MAX is -1.  Each codec has its own program counter; a     *)
(* behaviour exercises one codec and leaves the others idle.               *)
(***************************************************************************)
EXTENDS Integers, Sequences, FiniteSets, TLC

VARIABLES
    \* ---- RARC (cube/src/rarc.rs) ----
    tree,                  \* the directory tree on disk that encode walks
    rarc_pc,               \* position in encode / parse / files
    nodes,                 \* encode: Vec<RarcNode>
    file_entries,          \* encode: Vec<RarcFile>
    string_table,          \* encode: Vec<u8>
    file_data,             \* encode: Vec<u8>
    dir_queue,             \* encode: VecDeque<PathBuf>
    non_dir_file_entries,  \* encode: running index of real files
    arc_bytes,             \* the bytes encode returns
    rarc,                  \* the Rarc that parse returns
    decoded,               \* the (path, bytes) list that files() yields
    fs_log,                \* encode: the calls made to the file system, in order
    call_stack,            \* files: the calls of files_for_node in progress
    visited,               \* files: the nodes files_for_node was called on, in order
    \* ---- BMG message text (cube/src/bmg.rs, TextEncoding) ----
    text_pc,               \* position in decode / encode
    text_enc,              \* the TextEncoding
    text_items,            \* the plain characters and escapes the message is made of
    text_in,               \* the message bytes in the string pool
    text_lit,              \* the String that decode returns
    text_out,              \* the bytes that encode returns
    text_loop,             \* decode: the cursor, the run in progress and the blocks so far
    \* ---- BMG archive (cube/src/bmg.rs, Bmg) ----
    bmg_pc,                \* position in the life of the Bmg
    bmg,                   \* the Bmg
    appended,              \* the messages passed to add_message so far, in order
    bmg_in,                \* the bytes Bmg::read is given
    bmg_out,               \* the bytes Bmg::write returns
    bmg_ser,               \* the interchange form Serialize makes of the Bmg
    \* ---- BTI image (cube/src/bti.rs) ----
    bti_pc,                \* position of the BTI decoding step
    bti_in,                \* what the step is given
    bti_out                \* what it returns

rarcVars == <<tree, rarc_pc, nodes, file_entries, string_table, file_data,
              dir_queue, non_dir_file_entries, arc_bytes, rarc, decoded, fs_log,
              call_stack, visited>>

filesVars == <<call_stack, visited>>

textVars == <<text_pc, text_enc, text_items, text_in, text_lit, text_out, text_loop>>

bmgVars == <<bmg_pc, bmg, appended, bmg_in, bmg_out, bmg_ser>>

btiVars == <<bti_pc, bti_in, bti_out>>

vars == <<rarcVars, textVars, bmgVars, btiVars>>

\* What a step of one codec leaves alone.
notRarc == <<textVars, bmgVars, btiVars>>
notText == <<rarcVars, bmgVars, btiVars>>
notBmg == <<rarcVars, textVars, btiVars>>
notBti == <<rarcVars, textVars, bmgVars>>

-----------------------------------------------------------------------------
(* Options and integer helpers                                             *)

None == <<>>
Some(x) == <<x>>
IsSome(o) == o # <<>>
Unwrap(o) == o[1]

\* What a fallible operation gives: Ok(value), Err(error) or, where the code
\* indexes or slices past the end of its data or unwraps nothing, Panic.
Panic == [ok |-> FALSE]
Ok(v) == [ok |-> TRUE, val |-> v]
Err(e) == [ok |-> FALSE, err |-> e]

\* &data[from..to]
InRange(data, from, to) == 0 <= from /\ from <= to /\ to <= Len(data)
Slice(data, from, to) == SubSeq(data, from + 1, to)

Min(a, b) == IF a < b THEN a ELSE b
Max(a, b) == IF a > b THEN a ELSE b

AsU8(n) == n % 2^8
AsU16(n) == n % 2^16

U32_MAX == -1

Zeros(n) == [i \in 1..n |-> 0]

U16BE(n) == << (n \div 2^8) % 2^8, n % 2^8 >>
U32BE(n) == << (n \div 2^24) % 2^8, (n \div 2^16) % 2^8, (n \div 2^8) % 2^8, n % 2^8 >>

read_u16(data, offset) == data[offset + 1] * 2^8 + data[offset + 2]

read_u32(data, offset) ==
    LET hi == read_u16(data, offset)
        lo == read_u16(data, offset + 2)
    IN  (IF hi >= 2^15 THEN hi - 2^16 ELSE hi) * 2^16 + lo

RECURSIVE Concat(_)
Concat(ss) == IF ss = <<>> THEN <<>> ELSE Head(ss) \o Concat(Tail(ss))

\* SHIFT_JIS.decode on the bytes the model uses, the String held as its
\* UTF-8 bytes: a byte below 0x80 is the character of the same value, a
\* byte from 0xA1 to 0xDF the half-width katakana U+FF61 + (byte - 0xA1),
\* three bytes in UTF-8.
shift_jis_decode(byte) ==
    IF byte < 128 THEN <<byte>>
    ELSE LET c == 65377 + (byte - 161)
         IN  <<224 + (c \div 2^12), 128 + ((c \div 2^6) % 2^6), 128 + (c % 2^6)>>

read_str(data, offset, len) == Concat([i \in 1..len |-> shift_jis_decode(data[offset + i])])

RECURSIVE NullDistance(_, _, _)
NullDistance(data, offset, i) ==
    IF data[offset + i + 1] = 0 THEN i ELSE NullDistance(data, offset, i + 1)

read_str_until_null(data, offset) == read_str(data, offset, NullDistance(data, offset, 0))

RECURSIVE string_hash_from(_, _, _)
string_hash_from(string, i, hash) ==
    IF i > Len(string) THEN hash
    ELSE string_hash_from(string, i + 1, AsU16(AsU16(hash * 3) + string[i]))

string_hash(string) == string_hash_from(string, 1, 0)

to_ascii_uppercase(s) ==
    [i \in 1..Len(s) |-> IF s[i] >= 97 /\ s[i] <= 122 THEN s[i] - 32 ELSE s[i]]

-----------------------------------------------------------------------------
(* RARC: paths and the tree on disk                                        *)
(* A path is the sequence of its components; parent() drops the last one   *)
(* and file_name() is the last one.                                        *)

Dot == <<46>>
DotDot == <<46, 46>>
ROOT == <<82, 79, 79, 84>>

HasParent(p) == Len(p) > 0
Parent(p) == SubSeq(p, 1, Len(p) - 1)
FileName(p) == IF Len(p) = 0 THEN None ELSE Some(p[Len(p)])

\* OsString order: lexicographic on the bytes.
RECURSIVE NameLess(_, _)
NameLess(a, b) ==
    IF a = <<>> THEN b # <<>>
    ELSE IF b = <<>> THEN FALSE
    ELSE IF Head(a) # Head(b) THEN Head(a) < Head(b)
    ELSE NameLess(Tail(a), Tail(b))

\* The names of a set in ascending order.
RECURSIVE Ascending(_)
Ascending(S) ==
    IF S = {} THEN <<>>
    ELSE LET m == CHOOSE x \in S : \A y \in S \ {x} : NameLess(x, y)
         IN  <<m>> \o Ascending(S \ {m})

\* Every order of the elements of a set.
RECURSIVE Orders(_)
Orders(S) ==
    IF S = {} THEN {<<>>}
    ELSE UNION {{<<x>> \o rest : rest \in Orders(S \ {x})} : x \in S}

\* A variant that leaves the listing in the order it came in.
sorted_by_key_unsorted(listing) == listing

\* sorted_by_key(|entry| entry.file_name()): a stable sort of the listing,
\* whatever order read_dir gave it in.
RECURSIVE sorted_by_key(_)
sorted_by_key(listing) ==
    IF listing = <<>> THEN <<>>
    ELSE LET front == sorted_by_key(SubSeq(listing, 1, Len(listing) - 1))
             x == listing[Len(listing)]
             keep == Cardinality({i \in 1..Len(front) : ~NameLess(x, front[i])})
         IN  SubSeq(front, 1, keep) \o <<x>> \o SubSeq(front, keep + 1, Len(front))

\* read_dir(dir): the names of the entries of dir.
read_dir(t, dir) ==
    {p[Len(p)] : p \in {q \in t.dirs \cup DOMAIN t.files : HasParent(q) /\ Parent(q) = dir}}

-----------------------------------------------------------------------------
(* RARC: Rarc::encode                                                      *)

\* to_node_name(p, root): "ROOT" for the root itself, else the first four
\* bytes of the upper-cased last component, padded with NUL bytes.
to_node_name(p, root) ==
    IF p = root THEN Some(ROOT)
    ELSE IF ~IsSome(FileName(p)) THEN None
    ELSE LET file_name == to_ascii_uppercase(Unwrap(FileName(p)))
             node_name == SubSeq(file_name, 1, Min(4, Len(file_name)))
         IN  Some(node_name \o Zeros(4 - Len(node_name)))

\* find_position: the 0-based index of the first node of that name.
find_position(ns, node_name) ==
    IF \E i \in 1..Len(ns) : ns[i].node_name = node_name
    THEN Some((CHOOSE i \in 1..Len(ns) :
                  /\ ns[i].node_name = node_name
                  /\ \A j \in 1..(i - 1) : ns[j].node_name # node_name) - 1)
    ELSE None

is_dir(entry) == (entry.file_type_flags \div 2) % 2 # 0

\* The body of the loop over one sorted directory entry.  file_name[..4]
\* panics when the name of a subdirectory is shorter than four bytes.
VisitEntry(t, dir, file_name, w) ==
    LET path == Append(dir, file_name) IN
    IF path \in t.dirs
    THEN IF Len(file_name) < 4
         THEN [w EXCEPT !.ok = FALSE, !.fs_log = Append(@, <<"file_type", path>>)]
         ELSE [w EXCEPT
                 !.fs_log = Append(@, <<"file_type", path>>),
                 !.dir_queue = Append(@, path),
                 !.file_entries = Append(@,
                     [name |-> file_name,
                      index |-> 65535,
                      name_offset |-> AsU16(Len(w.string_table)),
                      data_size |-> 16,
                      data_offset_or_node_index |-> Len(w.nodes),
                      file_type_flags |-> 512]),
                 !.num_files = @ + 1,
                 !.nodes = Append(@,
                     [node_name |-> to_ascii_uppercase(SubSeq(file_name, 1, 4)),
                      name_offset |-> Len(w.string_table),
                      num_files |-> 0,
                      first_file_index |-> 0]),
                 !.string_table = @ \o file_name \o <<0>>]
    ELSE LET data == t.files[path] IN
         [w EXCEPT
             !.fs_log = @ \o <<<<"file_type", path>>, <<"read", path>>>>,
             !.file_entries = Append(@,
                 [name |-> file_name,
                  index |-> w.non_dir_file_entries,
                  name_offset |-> AsU16(Len(w.string_table)),
                  data_size |-> Len(data),
                  data_offset_or_node_index |-> Len(w.file_data),
                  file_type_flags |-> 4352]),
             !.non_dir_file_entries = AsU16(@ + 1),
             !.string_table = @ \o file_name \o <<0>>,
             !.file_data = @ \o data,
             !.num_files = @ + 1]

RECURSIVE VisitEntries(_, _, _, _)
VisitEntries(t, dir, names, w) ==
    IF names = <<>> \/ ~w.ok THEN w
    ELSE VisitEntries(t, dir, Tail(names), VisitEntry(t, dir, Head(names), w))

\* The index the ".." entry of dir gets: the first node named like dir's
\* parent, or u32::MAX when there is no such node.
parent_node_idx(ns, dir, root) ==
    IF ~HasParent(dir) THEN U32_MAX
    ELSE LET parent_node_name == to_node_name(Parent(dir), root) IN
         IF ~IsSome(parent_node_name) THEN U32_MAX
         ELSE LET found == find_position(ns, Unwrap(parent_node_name)) IN
              IF IsSome(found) THEN Unwrap(found) ELSE U32_MAX

\* The end of one iteration of the walk: look the node of dir up by its
\* 4-byte name, push "." and "..", and set that node's entry range.
CloseDir(t, dir, w) ==
    LET found == find_position(w.nodes, Unwrap(to_node_name(dir, t.root))) IN
    IF ~IsSome(found) THEN [w EXCEPT !.ok = FALSE]
    ELSE
    LET node_idx == Unwrap(found)
        dot == [name |-> Dot,
                index |-> AsU16(Len(w.file_entries)),
                name_offset |-> 0,
                data_size |-> 16,
                data_offset_or_node_index |-> node_idx,
                file_type_flags |-> 512]
        dotdot == [name |-> DotDot,
                   index |-> AsU16(Len(w.file_entries) + 1),
                   name_offset |-> 2,
                   data_size |-> 16,
                   data_offset_or_node_index |-> parent_node_idx(w.nodes, dir, t.root),
                   file_type_flags |-> 512]
        entries == w.file_entries \o <<dot, dotdot>>
        num_files == AsU16(w.num_files)
    IN  [w EXCEPT
            !.file_entries = entries,
            !.nodes = [@ EXCEPT ![node_idx + 1] =
                          [@ EXCEPT !.num_files = num_files,
                                    !.first_file_index = Len(entries) - num_files]]]

RarcHeader_write(h) ==
    <<82, 65, 82, 67>> \o U32BE(h.file_length) \o U32BE(32)
    \o U32BE(h.file_data_list_offset) \o U32BE(h.file_data_length)
    \o U32BE(h.file_data_length) \o Zeros(8)

RarcInfoBlock_write(b) ==
    U32BE(b.num_nodes) \o U32BE(b.node_list_offset) \o U32BE(b.num_file_entries)
    \o U32BE(b.file_entries_list_offset) \o U32BE(b.string_table_length)
    \o U32BE(b.string_table_offset) \o U16BE(b.num_files) \o Zeros(6)

RarcNode_write(node, strtab) ==
    node.node_name \o U32BE(node.name_offset)
    \o U16BE(string_hash(read_str_until_null(strtab, node.name_offset)))
    \o U16BE(node.num_files) \o U32BE(node.first_file_index)

RarcFile_write(entry) ==
    U16BE(entry.index) \o U16BE(string_hash(entry.name))
    \o U16BE(entry.file_type_flags) \o U16BE(entry.name_offset)
    \o U32BE(entry.data_offset_or_node_index) \o U32BE(entry.data_size) \o Zeros(4)

\* A variant that pushes one zero byte at most.
pad_to_once(buf, n) == IF Len(buf) % n = 0 THEN buf ELSE Append(buf, 0)

pad_to(buf, n) == buf \o Zeros((n - (Len(buf) % n)) % n)

\* A variant whose file_length leaves the 0x20 bytes of the header out.
FinalHeader_short(ns, entries, strtab, data) ==
    LET file_entries_list_offset == 32 + Len(ns) * 16
        string_table_offset == file_entries_list_offset + Len(entries) * 20
        file_data_list_offset == string_table_offset + Len(strtab)
    IN  [file_data_length |-> Len(data),
         file_length |-> file_data_list_offset + Len(data),
         file_data_list_offset |-> file_data_list_offset]

\* The header and info block encode builds once the walk is over.
FinalHeader(ns, entries, strtab, data) ==
    LET file_entries_list_offset == 32 + Len(ns) * 16
        string_table_offset == file_entries_list_offset + Len(entries) * 20
        file_data_list_offset == string_table_offset + Len(strtab)
    IN  [file_data_length |-> Len(data),
         file_length |-> file_data_list_offset + Len(data) + 32,
         file_data_list_offset |-> file_data_list_offset]

FinalInfoBlock(ns, entries, strtab) ==
    LET file_entries_list_offset == 32 + Len(ns) * 16 IN
    [num_nodes |-> Len(ns),
     num_file_entries |-> Len(entries),
     string_table_length |-> Len(strtab),
     num_files |-> AsU16(Cardinality({i \in 1..Len(entries) : ~is_dir(entries[i])})),
     node_list_offset |-> 32,
     file_entries_list_offset |-> file_entries_list_offset,
     string_table_offset |-> file_entries_list_offset + Len(entries) * 20]

FinalBytes(ns, entries, strtab, data) ==
    RarcHeader_write(FinalHeader(ns, entries, strtab, data))
    \o RarcInfoBlock_write(FinalInfoBlock(ns, entries, strtab))
    \o Concat([i \in 1..Len(ns) |-> RarcNode_write(ns[i], strtab)])
    \o Concat([i \in 1..Len(entries) |-> RarcFile_write(entries[i])])
    \o strtab \o data


-----------------------------------------------------------------------------
(* RARC: Rarc::parse and Rarc::files                                       *)

RarcNode_read(data, node_offset) ==
    [node_name |-> SubSeq(data, node_offset + 1, node_offset + 4),
     name_offset |-> read_u32(data, node_offset + 4),
     num_files |-> read_u16(data, node_offset + 10),
     first_file_index |-> read_u32(data, node_offset + 12)]

RarcFile_read(data, file_offset, string_list_offset) ==
    LET type_and_name_offset == read_u32(data, file_offset + 4)
        name_offset == type_and_name_offset % 2^24
    IN  [name |-> read_str_until_null(data, string_list_offset + name_offset),
         index |-> read_u16(data, file_offset),
         name_offset |-> AsU16(name_offset),
         data_size |-> read_u32(data, file_offset + 12),
         data_offset_or_node_index |-> read_u32(data, file_offset + 8),
         file_type_flags |-> (type_and_name_offset \div 2^24) % 2^8]

\* std::str::from_utf8 succeeds on these bytes.
RECURSIVE from_utf8_ok(_)
from_utf8_ok(bytes) ==
    LET Cont(i) == i <= Len(bytes) /\ bytes[i] >= 128 /\ bytes[i] <= 191
        b == bytes[1]
    IN  IF bytes = <<>> THEN TRUE
        ELSE IF b < 128 THEN from_utf8_ok(Tail(bytes))
        ELSE IF b >= 194 /\ b <= 223
        THEN Cont(2) /\ from_utf8_ok(SubSeq(bytes, 3, Len(bytes)))
        ELSE IF b >= 224 /\ b <= 239
        THEN /\ Cont(2) /\ Cont(3)
             /\ (b = 224 => bytes[2] >= 160)
             /\ (b = 237 => bytes[2] <= 159)
             /\ from_utf8_ok(SubSeq(bytes, 4, Len(bytes)))
        ELSE IF b >= 240 /\ b <= 244
        THEN /\ Cont(2) /\ Cont(3) /\ Cont(4)
             /\ (b = 240 => bytes[2] >= 144)
             /\ (b = 244 => bytes[2] <= 143)
             /\ from_utf8_ok(SubSeq(bytes, 5, Len(bytes)))
        ELSE FALSE

\* read_str_until_null finds a zero byte before it runs off the data.
null_terminated(data, offset) ==
    offset >= 0 /\ \E i \in (offset + 1)..Len(data) : data[i] = 0

\* RarcNode::read and RarcFile::read complete: every read lies inside the
\* data, the node name is UTF-8 and the entry's name ends in a zero byte.
RarcNode_readable(data, node_offset) ==
    /\ InRange(data, node_offset, node_offset + 16)
    /\ from_utf8_ok(Slice(data, node_offset, node_offset + 4))

RarcFile_readable(data, file_offset, string_list_offset) ==
    /\ InRange(data, file_offset, file_offset + 16)
    /\ null_terminated(data, string_list_offset + (read_u32(data, file_offset + 4) % 2^24))

\* Rarc::parse: the four checks of the header in the order of the code,
\* then the info block, the nodes and the file entries.  A read past the
\* end of the data panics.
Rarc_parse(data) ==
    IF ~InRange(data, 0, 4) THEN Panic
    ELSE IF SubSeq(data, 1, 4) # <<82, 65, 82, 67>>
    THEN Err(<<"MagicError", 0>>)
    ELSE IF ~InRange(data, 4, 8) THEN Panic
    ELSE IF read_u32(data, 4) # Len(data)
    THEN Err(<<"MetadataError", read_u32(data, 4)>>)
    ELSE IF ~InRange(data, 8, 12) THEN Panic
    ELSE IF read_u32(data, 8) # 32
    THEN Err(<<"MagicError", 1>>)
    ELSE IF ~InRange(data, 12, 32) THEN Panic
    ELSE IF read_u32(data, 28) # 0
    THEN Err(<<"MagicError", 2>>)
    ELSE IF ~InRange(data, 32, 58) THEN Panic
    ELSE
    LET header_length == read_u32(data, 8)
        num_nodes == read_u32(data, header_length)
        node_list_offset == read_u32(data, header_length + 4) + header_length
        num_file_entries == read_u32(data, header_length + 8)
        file_entries_list_offset == read_u32(data, header_length + 12) + header_length
        string_table_offset == read_u32(data, header_length + 20) + header_length
    IN  IF \/ num_nodes < 0 \/ num_file_entries < 0
           \/ \E i \in 1..num_nodes :
                 ~RarcNode_readable(data, node_list_offset + (i - 1) * 16)
           \/ \E i \in 1..num_file_entries :
                 ~RarcFile_readable(data, file_entries_list_offset + (i - 1) * 20,
                                    string_table_offset)
        THEN Panic
        ELSE
        [ok |-> TRUE,
         data |-> data,
         header |-> [file_length |-> read_u32(data, 4),
                     file_data_list_offset |-> read_u32(data, 12) + header_length,
                     file_data_length |-> read_u32(data, 16)],
         info_block |-> [num_nodes |-> num_nodes,
                         node_list_offset |-> node_list_offset,
                         num_file_entries |-> num_file_entries,
                         file_entries_list_offset |-> file_entries_list_offset,
                         string_table_length |-> read_u32(data, header_length + 16),
                         string_table_offset |-> string_table_offset,
                         num_files |-> read_u16(data, header_length + 24)],
         nodes |-> [i \in 1..num_nodes |->
                       RarcNode_read(data, node_list_offset + (i - 1) * 16)],
         files |-> [i \in 1..num_file_entries |->
                       RarcFile_read(data, file_entries_list_offset + (i - 1) * 20,
                                     string_table_offset)]]

SelectSeq2(s, Test(_)) == SelectSeq(s, Test)

\* files_for_node: the non-directory entries of the node's range with the
\* path of the node, then the same for every subdirectory entry in turn.
RECURSIVE files_for_node(_, _, _)
RECURSIVE files_for_dirs(_, _, _)
files_for_node(arc, node, parent_path) ==
    LET range == SubSeq(arc.files, node.first_file_index + 1,
                        node.first_file_index + node.num_files)
        IsDirEntry(e) == is_dir(e)
        IsFileEntry(e) == ~is_dir(e)
    IN  [i \in 1..Len(SelectSeq(range, IsFileEntry)) |->
            <<parent_path, SelectSeq(range, IsFileEntry)[i]>>]
        \o files_for_dirs(arc, SelectSeq(range, IsDirEntry), parent_path)

files_for_dirs(arc, dirs, parent_path) ==
    IF dirs = <<>> THEN <<>>
    ELSE LET file == Head(dirs)
             here == IF file.name \notin {Dot, DotDot}
                     THEN files_for_node(arc,
                                         arc.nodes[file.data_offset_or_node_index + 1],
                                         Append(parent_path, file.name))
                     ELSE <<>>
         IN  here \o files_for_dirs(arc, Tail(dirs), parent_path)

files(arc) ==
    LET files_with_paths == files_for_node(arc, arc.nodes[1], <<>>)
        Real(pf) == pf[2].name \notin {Dot, DotDot}
        kept == SelectSeq(files_with_paths, Real)
    IN  [i \in 1..Len(kept) |->
            LET file == kept[i][2]
                file_start == arc.header.file_data_list_offset + file.data_offset_or_node_index
            IN  <<Append(kept[i][1], file.name),
                  SubSeq(arc.data, file_start + 1, file_start + file.data_size)>>]

-----------------------------------------------------------------------------
(* RARC: the trees encode is run on                                        *)

N_ab == <<97, 98>>                         \* "ab"
N_data1 == <<100, 97, 116, 97, 49>>        \* "data1"
N_Data2 == <<68, 97, 116, 97, 50>>         \* "Data2"
N_rootx == <<114, 111, 111, 116, 120>>     \* "rootx"
N_music == <<109, 117, 115, 105, 99>>      \* "music"
N_inner == <<105, 110, 110, 101, 114>>     \* "inner"
N_cafee == <<99, 97, 102, 101, 195, 169>>  \* "cafe" and e with acute accent, in UTF-8
N_f == <<102>>                             \* "f"
N_zz == <<122, 122>>                       \* "zz"
N_arc == <<97, 114, 99>>                   \* "arc"
N_rootfs == <<114, 111, 111, 116, 102, 115>>  \* "rootfs"

MaxTopDirs == 2
MaxFiles == 2

DirNames == {N_ab, N_data1, N_Data2, N_rootx, N_music, N_cafee}
NestedNames == {N_Data2, N_inner}
\* The root as the caller names it: a bare relative name, whose parent has
\* no file name, or a directory below a directory of some name.
RootPaths == {<<N_arc>>, <<N_data1, N_arc>>, <<N_rootfs, N_arc>>}

\* What a file holds: nothing for "zz", else its depth and the last byte
\* of the name of its directory.
FileContent(p) ==
    IF p[Len(p)] = N_zz THEN <<>>
    ELSE <<Len(p), p[Len(p) - 1][Len(p[Len(p) - 1])]>>

Bounded(S, n) == {T \in SUBSET S : Cardinality(T) <= n}

MkTree(root, top, nested, fs) ==
    LET dirs == {root} \cup {Append(root, d) : d \in top}
                \cup {Append(Append(root, x[1]), x[2]) : x \in nested}
    IN  [is_dir |-> TRUE, root |-> root, dirs |-> dirs,
         files |-> [p \in fs |-> FileContent(p)]]

TreeDirs(root, top, nested) == MkTree(root, top, nested, {}).dirs

\* At most one directory at depth two; a file "f" in any directory and a
\* file "zz" in the root.
NestedChoices(top) == {{}} \cup {{x} : x \in top \X NestedNames}
FileChoices(root, top, nested) ==
    {Append(d, N_f) : d \in TreeDirs(root, top, nested)} \cup {Append(root, N_zz)}

NotADir == [is_dir |-> FALSE, root |-> <<N_arc>>, dirs |-> {},
            files |-> [p \in {<<N_arc>>} |-> <<1, 2>>]]

\* The direct walk of the tree: every file, relative to the root.
RelPath(t, p) == SubSeq(p, Len(t.root) + 1, Len(p))
Walk(t) == {<<RelPath(t, p), t.files[p]>> : p \in DOMAIN t.files}

-----------------------------------------------------------------------------
(* RARC: the steps of encode, parse and files                              *)

RarcIdle ==
    /\ tree = NotADir /\ rarc_pc = "idle" /\ nodes = <<>> /\ file_entries = <<>>
    /\ string_table = <<>> /\ file_data = <<>> /\ dir_queue = <<>>
    /\ non_dir_file_entries = 0 /\ arc_bytes = <<>> /\ rarc = None /\ decoded = <<>>
    /\ fs_log = <<>>
    /\ call_stack = <<>> /\ visited = <<>>

InitRarc ==
    /\ \/ tree = NotADir
       \/ \E root \in RootPaths, top \in Bounded(DirNames, MaxTopDirs) :
            \E nested \in NestedChoices(top) :
              \E fs \in Bounded(FileChoices(root, top, nested), MaxFiles) :
                 tree = MkTree(root, top, nested, fs)
    /\ rarc_pc = "start" /\ nodes = <<>> /\ file_entries = <<>>
    /\ string_table = <<>> /\ file_data = <<>> /\ dir_queue = <<>>
    /\ non_dir_file_entries = 0 /\ arc_bytes = <<>> /\ rarc = None /\ decoded = <<>>
    /\ fs_log = <<>>
    /\ call_stack = <<>> /\ visited = <<>>

\* A variant that starts the walk without asking whether the root is a
\* directory.
EncodeStart_unchecked ==
    /\ rarc_pc = "start"
    /\ fs_log' = Append(fs_log, <<"metadata", tree.root>>)
    /\ rarc_pc' = "walk"
    /\ nodes' = <<[node_name |-> ROOT, name_offset |-> 5,
                   num_files |-> 0, first_file_index |-> 0]>>
    /\ string_table' = Dot \o <<0>> \o DotDot \o <<0>>
                       \o Unwrap(FileName(tree.root)) \o <<0>>
    /\ dir_queue' = <<tree.root>>
    /\ UNCHANGED <<tree, file_entries, file_data, non_dir_file_entries,
                   arc_bytes, rarc, decoded>>
    /\ UNCHANGED filesVars
    /\ UNCHANGED notRarc

\* encode up to the loop: the root must be a directory; node 0 is "ROOT" and
\* the string table starts with ".", ".." and the root's own name.
EncodeStart ==
    /\ rarc_pc = "start"
    /\ fs_log' = Append(fs_log, <<"metadata", tree.root>>)
    /\ IF ~tree.is_dir
       THEN /\ rarc_pc' = "NotADirError"
            /\ UNCHANGED <<nodes, string_table, dir_queue>>
       ELSE /\ rarc_pc' = "walk"
            /\ nodes' = <<[node_name |-> ROOT, name_offset |-> 5,
                           num_files |-> 0, first_file_index |-> 0]>>
            /\ string_table' = Dot \o <<0>> \o DotDot \o <<0>>
                               \o Unwrap(FileName(tree.root)) \o <<0>>
            /\ dir_queue' = <<tree.root>>
    /\ UNCHANGED <<tree, file_entries, file_data, non_dir_file_entries,
                   arc_bytes, rarc, decoded>>
    /\ UNCHANGED filesVars
    /\ UNCHANGED notRarc

\* One iteration of `while !dir_queue.is_empty()`.
\* The body of one iteration of the walk, read_dir having listed the
\* entries of the directory in the order of listing.
walk_dir(listing) ==
    LET dir == Head(dir_queue)
        w0 == [nodes |-> nodes, file_entries |-> file_entries,
               string_table |-> string_table, file_data |-> file_data,
               dir_queue |-> Tail(dir_queue),
               non_dir_file_entries |-> non_dir_file_entries,
               fs_log |-> Append(fs_log, <<"read_dir", dir>>),
               num_files |-> 2, ok |-> TRUE]
        w1 == VisitEntries(tree, dir, sorted_by_key(listing), w0)
    IN  IF w1.ok THEN CloseDir(tree, dir, w1) ELSE w1

EncodeDir ==
    /\ rarc_pc = "walk" /\ dir_queue # <<>>
    /\ \E listing \in Orders(read_dir(tree, Head(dir_queue))) :
       LET w == walk_dir(listing)
       IN  /\ fs_log' = w.fs_log
           /\ IF w.ok
              THEN /\ rarc_pc' = "walk"
                   /\ nodes' = w.nodes
                   /\ file_entries' = w.file_entries
                   /\ string_table' = w.string_table
                   /\ file_data' = w.file_data
                   /\ dir_queue' = w.dir_queue
                   /\ non_dir_file_entries' = w.non_dir_file_entries
              ELSE /\ rarc_pc' = "panic"
                   /\ UNCHANGED <<nodes, file_entries, string_table, file_data,
                                  dir_queue, non_dir_file_entries>>
    /\ UNCHANGED <<tree, arc_bytes, rarc, decoded>>
    /\ UNCHANGED filesVars
    /\ UNCHANGED notRarc

\* After the loop: pad the string table and serialize.
EncodeFinish ==
    /\ rarc_pc = "walk" /\ dir_queue = <<>>
    /\ string_table' = pad_to(string_table, 32)
    /\ arc_bytes' = FinalBytes(nodes, file_entries, pad_to(string_table, 32), file_data)
    /\ rarc_pc' = "encoded"
    /\ UNCHANGED <<tree, nodes, file_entries, file_data, dir_queue,
                   non_dir_file_entries, rarc, decoded, fs_log>>
    /\ UNCHANGED filesVars
    /\ UNCHANGED notRarc

Parse ==
    /\ rarc_pc = "encoded"
    /\ rarc' = Some(Rarc_parse(arc_bytes))
    /\ rarc_pc' = IF Rarc_parse(arc_bytes).ok THEN "parsed"
                  ELSE IF Rarc_parse(arc_bytes) = Panic THEN "parse_panic"
                  ELSE "parse_error"
    /\ UNCHANGED <<tree, nodes, file_entries, string_table, file_data, dir_queue,
                   non_dir_file_entries, arc_bytes, decoded, fs_log>>
    /\ UNCHANGED filesVars
    /\ UNCHANGED notRarc

Files ==
    /\ rarc_pc = "parsed"
    /\ decoded' = files(Unwrap(rarc))
    /\ rarc_pc' = "done"
    /\ UNCHANGED <<tree, nodes, file_entries, string_table, file_data, dir_queue,
                   non_dir_file_entries, arc_bytes, rarc, fs_log>>
    /\ UNCHANGED filesVars
    /\ UNCHANGED notRarc

NextRarc == EncodeStart \/ EncodeDir \/ EncodeFinish \/ Parse \/ Files


-----------------------------------------------------------------------------
(* RARC: Rarc::parse on data of any kind                                   *)
(* The data are the archives of two small trees, cut short and with the    *)
(* four checked fields of the header set to good and bad values.           *)

\* arc/ holding the file "f" with the bytes 1, 2; and arc/ empty.
ArchiveOfOneFile ==
    FinalBytes(<<[node_name |-> ROOT, name_offset |-> 5, num_files |-> 3,
                  first_file_index |-> 0]>>,
               <<[name |-> N_f, index |-> 0, name_offset |-> 9, data_size |-> 2,
                  data_offset_or_node_index |-> 0, file_type_flags |-> 4352],
                 [name |-> Dot, index |-> 1, name_offset |-> 0, data_size |-> 16,
                  data_offset_or_node_index |-> 0, file_type_flags |-> 512],
                 [name |-> DotDot, index |-> 2, name_offset |-> 2, data_size |-> 16,
                  data_offset_or_node_index |-> U32_MAX, file_type_flags |-> 512]>>,
               pad_to(Dot \o <<0>> \o DotDot \o <<0>> \o N_arc \o <<0>> \o N_f \o <<0>>, 32),
               <<1, 2>>)

ArchiveOfEmptyDir ==
    FinalBytes(<<[node_name |-> ROOT, name_offset |-> 5, num_files |-> 2,
                  first_file_index |-> 0]>>,
               <<[name |-> Dot, index |-> 0, name_offset |-> 0, data_size |-> 16,
                  data_offset_or_node_index |-> 0, file_type_flags |-> 512],
                 [name |-> DotDot, index |-> 1, name_offset |-> 2, data_size |-> 16,
                  data_offset_or_node_index |-> U32_MAX, file_type_flags |-> 512]>>,
               pad_to(Dot \o <<0>> \o DotDot \o <<0>> \o N_arc \o <<0>>, 32),
               <<>>)

\* The bytes at offset replaced by those of field, as far as the data go.
Overwrite(data, offset, field) ==
    [i \in 1..Len(data) |->
        IF i > offset /\ i <= offset + Len(field) THEN field[i - offset] ELSE data[i]]

CutLengths(base) == {0, 3, 4, 8, 12, 31, 32, 58, 64, Len(base)}

GivenData(base, n, magic, dlen, hlen, unk1) ==
    Overwrite(Overwrite(Overwrite(Overwrite(
        SubSeq(base, 1, n), 0, magic), 4, U32BE(n + dlen)), 8, U32BE(hlen)), 28, U32BE(unk1))

ParseInputs ==
    UNION {{GivenData(base, n, magic, dlen, hlen, unk1) :
               n \in CutLengths(base),
               magic \in {<<82, 65, 82, 67>>, <<82, 65, 82, 68>>},
               dlen \in {0, 1}, hlen \in {32, 64}, unk1 \in {0, 1}} :
           base \in {ArchiveOfOneFile, ArchiveOfEmptyDir}}

InitRarcParse ==
    /\ tree = NotADir /\ rarc_pc = "given" /\ nodes = <<>> /\ file_entries = <<>>
    /\ string_table = <<>> /\ file_data = <<>> /\ dir_queue = <<>>
    /\ non_dir_file_entries = 0 /\ rarc = None /\ decoded = <<>>
    /\ fs_log = <<>>
    /\ call_stack = <<>> /\ visited = <<>>
    /\ arc_bytes \in ParseInputs

ParseGiven ==
    /\ rarc_pc = "given"
    /\ rarc' = Some(Rarc_parse(arc_bytes))
    /\ rarc_pc' = IF Rarc_parse(arc_bytes).ok THEN "parsed"
                  ELSE IF Rarc_parse(arc_bytes) = Panic THEN "parse_panic"
                  ELSE "parse_error"
    /\ UNCHANGED <<tree, nodes, file_entries, string_table, file_data, dir_queue,
                   non_dir_file_entries, arc_bytes, decoded, fs_log>>
    /\ UNCHANGED filesVars
    /\ UNCHANGED notRarc

NextRarcParse == ParseGiven

\* What the four checks make of data that hold all four fields.
FirstViolatedCheck(data) ==
    IF Slice(data, 0, 4) # <<82, 65, 82, 67>> THEN <<"MagicError", 0>>
    ELSE IF read_u32(data, 4) # Len(data) THEN <<"MetadataError", read_u32(data, 4)>>
    ELSE IF read_u32(data, 8) # 32 THEN <<"MagicError", 1>>
    ELSE IF read_u32(data, 28) # 0 THEN <<"MagicError", 2>>
    ELSE <<"none">>

ParseOver == rarc_pc \in {"parsed", "parse_error", "parse_panic"}

\* C11: parse returns an error, and no archive, when the magic is not
\* "RARC" (MagicError(0)), the declared length differs from the input
\* length (MetadataError), the header length is not 0x20 (MagicError(1)) or
\* the field at 0x1C is not zero (MagicError(2)); the error is that of the
\* first violated check in this order, and an input violating none of them
\* is accepted.
C11_ParseChecksInOrder ==
    (ParseOver /\ Len(arc_bytes) >= 32) =>
        IF FirstViolatedCheck(arc_bytes) = <<"none">>
        THEN Unwrap(rarc).ok
        ELSE Unwrap(rarc) = Err(FirstViolatedCheck(arc_bytes))


-----------------------------------------------------------------------------
(* RARC: properties                                                        *)

\* The directories in the order the walk takes them from the queue: node
\* index k is allocated for BfsOrder[k + 1].
SubDirs(t, dir) == {n \in read_dir(t, dir) : Append(dir, n) \in t.dirs}

RECURSIVE BfsFrom(_, _, _)
BfsFrom(t, queue, acc) ==
    IF queue = <<>> THEN acc
    ELSE LET dir == Head(queue)
             children == Ascending(SubDirs(t, dir))
         IN  BfsFrom(t, Tail(queue) \o [i \in 1..Len(children) |-> Append(dir, children[i])],
                     Append(acc, dir))

BfsOrder(t) == BfsFrom(t, <<t.root>>, <<>>)
NodeIndexOf(t, dir) == (CHOOSE k \in 1..Len(BfsOrder(t)) : BfsOrder(t)[k] = dir) - 1

WalkDone == rarc_pc \in {"encoded", "parsed", "done"}
DecodedSet == {decoded[i] : i \in 1..Len(decoded)}

\* The entry indices (0-based) of the range of node k (1-based position).
RangeOf(k) == {i \in 0..(Len(file_entries) - 1) :
                  /\ nodes[k].first_file_index <= i
                  /\ i < nodes[k].first_file_index + nodes[k].num_files}
NamedIn(k, name) == {i \in RangeOf(k) : file_entries[i + 1].name = name}

\* C1: for any directory tree, encode then parse then files() completes and
\* yields exactly the set of (relative path, bytes) pairs of a direct walk
\* of the tree.
C1_RoundTripIdentity ==
    /\ rarc_pc = "done" => DecodedSet = Walk(tree)
    /\ tree.is_dir => rarc_pc # "panic"

\* C2: in every archive encode produces, the range of every node holds
\* exactly one "." entry, pointing to the node itself, and exactly one ".."
\* entry, pointing to the node of the parent directory, or u32::MAX for the
\* root.
C2_DotAndDotDot ==
    WalkDone =>
        \A k \in 1..Len(nodes) :
            /\ Cardinality(NamedIn(k, Dot)) = 1
            /\ \A i \in NamedIn(k, Dot) :
                   file_entries[i + 1].data_offset_or_node_index = k - 1
            /\ Cardinality(NamedIn(k, DotDot)) = 1
            /\ \A i \in NamedIn(k, DotDot) :
                   file_entries[i + 1].data_offset_or_node_index =
                       IF k = 1 THEN U32_MAX
                       ELSE NodeIndexOf(tree, Parent(BfsOrder(tree)[k]))

\* C3: once the walk is over the ranges of the nodes partition the
\* file-entry table, and the range of each node holds exactly the entries
\* of the directory the node was allocated for.
C3_RangesPartition ==
    WalkDone =>
        /\ \A i \in 0..(Len(file_entries) - 1) :
               Cardinality({k \in 1..Len(nodes) : i \in RangeOf(k)}) = 1
        /\ \A k \in 1..Len(nodes) :
               /\ nodes[k].num_files = Cardinality(read_dir(tree, BfsOrder(tree)[k])) + 2
               /\ {file_entries[i + 1].name : i \in RangeOf(k)} =
                      read_dir(tree, BfsOrder(tree)[k]) \cup {Dot, DotDot}


\* C12: encode on a root that is not a directory fails with NotADirError
\* before any directory is listed or any file content read, and without
\* producing output bytes.
C12_NotADirFailsFirst ==
    (~tree.is_dir /\ rarc_pc # "start") =>
        /\ rarc_pc = "NotADirError"
        /\ arc_bytes = <<>>
        /\ \A i \in 1..Len(fs_log) : fs_log[i][1] \notin {"read_dir", "read"}

\* encode has failed on the root that is a file, having asked only for its
\* metadata.
C12_Witness ==
    /\ ~tree.is_dir
    /\ rarc_pc = "NotADirError"
    /\ fs_log = <<<<"metadata", tree.root>>>>


\* The first four characters of a name in upper case, padded with zero
\* bytes to four.
ShortNameOf(name) ==
    LET head == to_ascii_uppercase(SubSeq(name, 1, Min(4, Len(name))))
    IN  head \o Zeros(4 - Len(head))

NodeNamesAsClaimed ==
    \A k \in 1..Len(nodes) :
        nodes[k].node_name =
            IF k = 1 THEN ROOT
            ELSE ShortNameOf(BfsOrder(tree)[k][Len(BfsOrder(tree)[k])])

\* C13: the node of every subdirectory encode reaches has as short name
\* the first four characters of the directory's own name in upper case,
\* padded with zero bytes when the name is shorter; the node of the initial
\* directory is "ROOT"; encode completes for names of any length from 1.
C13_NodeShortNames ==
    /\ rarc_pc # "panic"
    /\ tree.is_dir => NodeNamesAsClaimed


\* hash := (hash * 3 + byte) mod 2^16 over the bytes of a name, from 0.
RECURSIVE FoldHash(_, _)
FoldHash(bytes, hash) ==
    IF bytes = <<>> THEN hash
    ELSE FoldHash(Tail(bytes), (hash * 3 + Head(bytes)) % 2^16)

NodeTableAt(k) == 64 + 16 * k
FileEntryAt(i) == 64 + 16 * Len(nodes) + 20 * i

\* C14: in the output of encode the name_hash of every file entry and of
\* every node is the fold hash := (hash * 3 + byte) mod 2^16, from 0, over
\* the bytes of its full name; for a node that is the directory's full
\* name, the root directory's own name for node 0.
C14_NameHashes ==
    rarc_pc = "encoded" =>
        /\ \A k \in 0..(Len(nodes) - 1) :
               read_u16(arc_bytes, NodeTableAt(k) + 8) =
                   FoldHash(BfsOrder(tree)[k + 1][Len(BfsOrder(tree)[k + 1])], 0)
        /\ \A i \in 0..(Len(file_entries) - 1) :
               read_u16(arc_bytes, FileEntryAt(i) + 2) = FoldHash(file_entries[i + 1].name, 0)


\* The names of the entries of the directories in the order encode meets
\* them, each followed by a zero byte, an entry per occurrence.
NamesOf(dir) ==
    LET names == Ascending(read_dir(tree, dir))
    IN  Concat([i \in 1..Len(names) |-> names[i] \o <<0>>])

NamesInOrder ==
    Dot \o <<0>> \o DotDot \o <<0>> \o tree.root[Len(tree.root)] \o <<0>>
    \o Concat([k \in 1..Len(BfsOrder(tree)) |-> NamesOf(BfsOrder(tree)[k])])

StringTableAt == 64 + 16 * Len(nodes) + 20 * Len(file_entries)
StringTableLength == read_u32(arc_bytes, 32 + 16)
WrittenStringTable == Slice(arc_bytes, StringTableAt, StringTableAt + StringTableLength)

\* C15: the string table encode writes begins with ".", ".." and the root
\* directory's own name, each followed by a zero byte; then comes every
\* name once per occurrence; its length is a multiple of 32 with only zero
\* bytes as padding; every "." entry has name offset 0, every ".." entry
\* name offset 2 and the root node name offset 5.
C15_StringTable ==
    rarc_pc = "encoded" =>
        /\ StringTableLength % 32 = 0
        /\ StringTableLength - Len(NamesInOrder) \in 0..31
        /\ WrittenStringTable = NamesInOrder \o Zeros(StringTableLength - Len(NamesInOrder))
        /\ read_u32(arc_bytes, NodeTableAt(0) + 4) = 5
        /\ \A i \in 0..(Len(file_entries) - 1) :
               /\ file_entries[i + 1].name = Dot => read_u16(arc_bytes, FileEntryAt(i) + 6) = 0
               /\ file_entries[i + 1].name = DotDot =>
                      read_u16(arc_bytes, FileEntryAt(i) + 6) = 2

\* An archive was written in which two entries have the same name, each
\* with its own place in the string table.
C15_Witness ==
    /\ rarc_pc = "encoded"
    /\ \E i, j \in 0..(Len(file_entries) - 1) :
          /\ i < j
          /\ file_entries[i + 1].name = N_f
          /\ file_entries[j + 1].name = N_f
          /\ read_u16(arc_bytes, FileEntryAt(i) + 6) < read_u16(arc_bytes, FileEntryAt(j) + 6)
    /\ Len(NamesInOrder) % 32 # 0


Encoded == rarc_pc \in {"encoded", "parsed", "done"}

\* C16: the output of encode is header (0x20), info block (0x20), node
\* table (16 bytes a node), file-entry table (20 bytes an entry), padded
\* string table and data blob in this order; the offsets stored in the
\* header and the info block, each relative to the end of the header, are
\* the places of those sections, the stored file_length is the length of
\* the output, and parse accepts every output of encode.
C16_LayoutAndOffsets ==
    /\ rarc_pc \notin {"parse_error", "parse_panic"}
    /\ Encoded =>
          /\ Slice(arc_bytes, 0, 4) = <<82, 65, 82, 67>>
          /\ read_u32(arc_bytes, 4) = Len(arc_bytes)
          /\ read_u32(arc_bytes, 8) = 32
          /\ read_u32(arc_bytes, 32) = Len(nodes)
          /\ read_u32(arc_bytes, 32 + 4) + 32 = NodeTableAt(0)
          /\ read_u32(arc_bytes, 32 + 8) = Len(file_entries)
          /\ read_u32(arc_bytes, 32 + 12) + 32 = FileEntryAt(0)
          /\ read_u32(arc_bytes, 32 + 20) + 32 = StringTableAt
          /\ read_u32(arc_bytes, 12) + 32 = StringTableAt + StringTableLength
          /\ read_u32(arc_bytes, 16) = Len(file_data)
          /\ Len(arc_bytes) = StringTableAt + StringTableLength + Len(file_data)
          /\ \A k \in 0..(Len(nodes) - 1) :
                Slice(arc_bytes, NodeTableAt(k), NodeTableAt(k) + 4) = nodes[k + 1].node_name
          /\ \A i \in 0..(Len(file_entries) - 1) :
                read_u16(arc_bytes, FileEntryAt(i)) = file_entries[i + 1].index
          /\ WrittenStringTable = string_table
          /\ Slice(arc_bytes, StringTableAt + StringTableLength, Len(arc_bytes)) = file_data

\* parse has accepted the archive of a tree of two directories or more
\* with file content.
C16_Witness ==
    /\ rarc_pc = "parsed"
    /\ Unwrap(rarc).ok
    /\ Len(nodes) >= 2
    /\ file_data # <<>>


\* The directories read_dir was called on, in the order of the calls.
DirsRead == SelectSeq(fs_log, LAMBDA call : call[1] = "read_dir")

\* The names of all entries in the order claimed: directory by directory
\* breadth-first, ascending within each, then "." and "..".
EntryNamesOf(dir) == Ascending(read_dir(tree, dir)) \o <<Dot, DotDot>>
EntryNamesInOrder ==
    Concat([k \in 1..Len(BfsOrder(tree)) |-> EntryNamesOf(BfsOrder(tree)[k])])

NodeIsNamed(k, name) ==
    /\ Slice(string_table, nodes[k].name_offset, nodes[k].name_offset + Len(name)) = name
    /\ string_table[nodes[k].name_offset + Len(name) + 1] = 0

WrittenNumFiles == read_u16(arc_bytes, 32 + 24)

\* C24: the num_files field of the info block encode writes is the number
\* of file entries that are actual files, counting neither subdirectory
\* entries nor "." and ".."; and is_dir() says the same of an entry as
\* built by encode and of that entry as parsed back from the output.
C24_NumFilesCountsFiles ==
    /\ WalkDone => WrittenNumFiles = Cardinality(DOMAIN tree.files)
    /\ rarc_pc \in {"parsed", "done"} =>
          /\ Len(Unwrap(rarc).files) = Len(file_entries)
          /\ \A i \in 1..Len(file_entries) :
                is_dir(Unwrap(rarc).files[i]) = is_dir(file_entries[i])


-----------------------------------------------------------------------------
(* RARC: Rarc::files a call at a time                                      *)
(* files_for_node calls itself for every subdirectory entry; the calls in  *)
(* progress are a stack of frames, each with the node it works on, the     *)
(* subdirectory entries it has still to go through, its parent_path and    *)
(* its files_with_paths so far.  The data are parsed archives whose        *)
(* subdirectory entries refer to any node.                                 *)

\* The number of calls the thread's stack has room for.
MaxDepth == 6

node_range_ok(arc, k) ==
    /\ k + 1 <= Len(arc.nodes)
    /\ arc.nodes[k + 1].first_file_index + arc.nodes[k + 1].num_files <= Len(arc.files)

\* The start of a call: the entries of the node's range, partitioned.
new_frame(arc, k, parent_path) ==
    LET node == arc.nodes[k + 1]
        range == SubSeq(arc.files, node.first_file_index + 1,
                        node.first_file_index + node.num_files)
        IsDirEntry(e) == is_dir(e)
        IsFileEntry(e) == ~is_dir(e)
    IN  [node |-> k,
         parent_path |-> parent_path,
         dirs |-> SelectSeq(range, IsDirEntry),
         files_with_paths |-> [i \in 1..Len(SelectSeq(range, IsFileEntry)) |->
                                  <<parent_path, SelectSeq(range, IsFileEntry)[i]>>]]

\* The filter and the map of files() on what files_for_node returned.
files_map(arc, files_with_paths) ==
    LET Real(pf) == pf[2].name \notin {Dot, DotDot}
        kept == SelectSeq(files_with_paths, Real)
    IN  [i \in 1..Len(kept) |->
            LET file == kept[i][2]
                file_start == arc.header.file_data_list_offset + file.data_offset_or_node_index
            IN  <<Append(kept[i][1], file.name),
                  SubSeq(arc.data, file_start + 1, file_start + file.data_size)>>]

\* arc/ holding the file "f" and music/, music/ holding inner/, inner/
\* holding data1/, data1/ holding the file "zz".
ArchiveOfNestedDirs ==
    FinalBytes(<<[node_name |-> ROOT, name_offset |-> 5, num_files |-> 4,
                  first_file_index |-> 0],
                 [node_name |-> <<77, 85, 83, 73>>, name_offset |-> 11, num_files |-> 3,
                  first_file_index |-> 4],
                 [node_name |-> <<73, 78, 78, 69>>, name_offset |-> 17, num_files |-> 3,
                  first_file_index |-> 7],
                 [node_name |-> <<68, 65, 84, 65>>, name_offset |-> 23, num_files |-> 3,
                  first_file_index |-> 10]>>,
               <<[name |-> N_f, index |-> 0, name_offset |-> 9, data_size |-> 2,
                  data_offset_or_node_index |-> 0, file_type_flags |-> 4352],
                 [name |-> N_music, index |-> 65535, name_offset |-> 11, data_size |-> 16,
                  data_offset_or_node_index |-> 1, file_type_flags |-> 512],
                 [name |-> Dot, index |-> 2, name_offset |-> 0, data_size |-> 16,
                  data_offset_or_node_index |-> 0, file_type_flags |-> 512],
                 [name |-> DotDot, index |-> 3, name_offset |-> 2, data_size |-> 16,
                  data_offset_or_node_index |-> U32_MAX, file_type_flags |-> 512],
                 [name |-> N_inner, index |-> 65535, name_offset |-> 17, data_size |-> 16,
                  data_offset_or_node_index |-> 2, file_type_flags |-> 512],
                 [name |-> Dot, index |-> 5, name_offset |-> 0, data_size |-> 16,
                  data_offset_or_node_index |-> 1, file_type_flags |-> 512],
                 [name |-> DotDot, index |-> 6, name_offset |-> 2, data_size |-> 16,
                  data_offset_or_node_index |-> 0, file_type_flags |-> 512],
                 [name |-> N_data1, index |-> 65535, name_offset |-> 23, data_size |-> 16,
                  data_offset_or_node_index |-> 3, file_type_flags |-> 512],
                 [name |-> Dot, index |-> 8, name_offset |-> 0, data_size |-> 16,
                  data_offset_or_node_index |-> 2, file_type_flags |-> 512],
                 [name |-> DotDot, index |-> 9, name_offset |-> 2, data_size |-> 16,
                  data_offset_or_node_index |-> 1, file_type_flags |-> 512],
                 [name |-> N_zz, index |-> 1, name_offset |-> 29, data_size |-> 1,
                  data_offset_or_node_index |-> 32, file_type_flags |-> 4352],
                 [name |-> Dot, index |-> 11, name_offset |-> 0, data_size |-> 16,
                  data_offset_or_node_index |-> 3, file_type_flags |-> 512],
                 [name |-> DotDot, index |-> 12, name_offset |-> 2, data_size |-> 16,
                  data_offset_or_node_index |-> 2, file_type_flags |-> 512]>>,
               pad_to(Dot \o <<0>> \o DotDot \o <<0>> \o N_arc \o <<0>> \o N_f \o <<0>>
                      \o N_music \o <<0>> \o N_inner \o <<0>> \o N_data1 \o <<0>>
                      \o N_zz \o <<0>>, 32),
               pad_to(<<1, 2>>, 32) \o <<3>>)

\* The 0-based places of the entries music, inner and data1 in the file
\* entry table, and the byte offset of an entry's data_offset_or_node_index.
SubdirEntries == {1, 4, 7}
NodeIndexField(p) == 32 + 32 + 4 * 16 + p * 20 + 8

\* The archive with the subdirectory entry at p made to refer to node k:
\* each of the four nodes, and one past the node table.
Redirected(p, k) == Overwrite(ArchiveOfNestedDirs, NodeIndexField(p), U32BE(k))
FilesInputs ==
    {Redirected(p, k) : p \in SubdirEntries, k \in 0..4}
        \cup {ArchiveOfOneFile, ArchiveOfEmptyDir}

InitRarcFiles ==
    /\ tree = NotADir /\ rarc_pc = "given" /\ nodes = <<>> /\ file_entries = <<>>
    /\ string_table = <<>> /\ file_data = <<>> /\ dir_queue = <<>>
    /\ non_dir_file_entries = 0 /\ rarc = None /\ decoded = <<>>
    /\ fs_log = <<>>
    /\ call_stack = <<>> /\ visited = <<>>
    /\ arc_bytes \in FilesInputs

Top == call_stack[Len(call_stack)]

\* files() up to the call of files_for_node on node 0.
FilesBegin ==
    /\ rarc_pc = "parsed"
    /\ IF node_range_ok(Unwrap(rarc), 0)
       THEN /\ call_stack' = <<new_frame(Unwrap(rarc), 0, <<>>)>>
            /\ visited' = <<0>>
            /\ rarc_pc' = "files"
       ELSE /\ rarc_pc' = "files_panic"
            /\ UNCHANGED filesVars
    /\ UNCHANGED <<tree, nodes, file_entries, string_table, file_data, dir_queue,
                   non_dir_file_entries, arc_bytes, rarc, decoded, fs_log>>
    /\ UNCHANGED notRarc

\* The loop over dirs passes "." or "..".
FilesSkip ==
    /\ rarc_pc = "files"
    /\ Top.dirs # <<>> /\ Head(Top.dirs).name \in {Dot, DotDot}
    /\ call_stack' = [call_stack EXCEPT ![Len(call_stack)].dirs = Tail(Top.dirs)]
    /\ UNCHANGED <<tree, rarc_pc, nodes, file_entries, string_table, file_data, dir_queue,
                   non_dir_file_entries, arc_bytes, rarc, decoded, fs_log, visited>>
    /\ UNCHANGED notRarc

\* The loop over dirs calls files_for_node on the node a subdirectory entry
\* refers to.  The index into nodes or the slice of files panics when out
\* of range, and the call fails when the stack has no room for it.
FilesCall ==
    /\ rarc_pc = "files"
    /\ Top.dirs # <<>> /\ Head(Top.dirs).name \notin {Dot, DotDot}
    /\ LET file == Head(Top.dirs)
           k == file.data_offset_or_node_index
       IN  IF k < 0 \/ ~node_range_ok(Unwrap(rarc), k)
           THEN rarc_pc' = "files_panic" /\ UNCHANGED filesVars
           ELSE IF Len(call_stack) >= MaxDepth
           THEN rarc_pc' = "stack_overflow" /\ UNCHANGED filesVars
           ELSE /\ call_stack' =
                      Append([call_stack EXCEPT ![Len(call_stack)].dirs = Tail(Top.dirs)],
                             new_frame(Unwrap(rarc), k, Append(Top.parent_path, file.name)))
                /\ visited' = Append(visited, k)
                /\ UNCHANGED rarc_pc
    /\ UNCHANGED <<tree, nodes, file_entries, string_table, file_data, dir_queue,
                   non_dir_file_entries, arc_bytes, rarc, decoded, fs_log>>
    /\ UNCHANGED notRarc

\* A call other than the first returns: its caller extends its
\* files_with_paths with the result.
FilesReturn ==
    /\ rarc_pc = "files"
    /\ Top.dirs = <<>> /\ Len(call_stack) > 1
    /\ call_stack' =
          [SubSeq(call_stack, 1, Len(call_stack) - 1)
              EXCEPT ![Len(call_stack) - 1].files_with_paths = @ \o Top.files_with_paths]
    /\ UNCHANGED <<tree, rarc_pc, nodes, file_entries, string_table, file_data, dir_queue,
                   non_dir_file_entries, arc_bytes, rarc, decoded, fs_log, visited>>
    /\ UNCHANGED notRarc

\* The first call returns and files() maps its result.
FilesEnd ==
    /\ rarc_pc = "files"
    /\ Top.dirs = <<>> /\ Len(call_stack) = 1
    /\ decoded' = files_map(Unwrap(rarc), Top.files_with_paths)
    /\ call_stack' = <<>>
    /\ rarc_pc' = "done"
    /\ UNCHANGED <<tree, nodes, file_entries, string_table, file_data, dir_queue,
                   non_dir_file_entries, arc_bytes, rarc, fs_log, visited>>
    /\ UNCHANGED notRarc

NextRarcFiles ==
    ParseGiven \/ FilesBegin \/ FilesSkip \/ FilesCall \/ FilesReturn \/ FilesEnd

\* Every entry files_for_node has put into a files_with_paths so far.
Collected ==
    Concat([i \in 1..Len(call_stack) |->
               [j \in 1..Len(call_stack[i].files_with_paths) |->
                   call_stack[i].files_with_paths[j][2]]])
NoRepeat(s) == \A i, j \in 1..Len(s) : i # j => s[i] # s[j]

\* C30: for every archive parse accepts, files() comes to its end having
\* called files_for_node on each node once at most and collected each
\* file entry once at most, also when a subdirectory entry refers to node
\* 0, to its own node or to a node above it.
C30_FilesVisitsOnce ==
    /\ rarc_pc # "stack_overflow"
    /\ NoRepeat(visited)
    /\ NoRepeat(Collected)

-----------------------------------------------------------------------------
(* BMG: TextEncoding                                                       *)
(* A String is the sequence of its code points.  The model's plain text is *)
(* ASCII, where byte offsets into the String are character offsets.        *)

Encodings == {"Undefined", "CP1252", "UTF16", "ShiftJIS", "UTF8"}

codepoint_size(enc) == IF enc = "UTF16" THEN 2 ELSE 1


\* The loop of decode: cut the bytes into text runs and escape payloads.
\* A slice or an index out of range panics.
RECURSIVE decode_blocks(_, _, _, _, _)
decode_blocks(cs, data, offset, cur_block_len, blocks) ==
    IF offset + cs > Len(data) THEN Panic
    ELSE
    LET codepoint == IF cs = 2 THEN read_u16(data, offset) ELSE data[offset + 1]
        run == <<"Text", SubSeq(data, offset - cur_block_len + 1, offset)>>
    IN  IF codepoint = 0 THEN Ok(Append(blocks, run))
        ELSE IF codepoint = 26
        THEN IF offset + cs + 1 > Len(data) THEN Panic
             ELSE LET tag_len == data[offset + cs + 1] IN
                  IF offset + cs + 1 > offset + tag_len \/ offset + tag_len > Len(data)
                  THEN Panic
                  ELSE decode_blocks(cs, data, offset + tag_len, 0,
                           blocks \o <<run, <<"EscapeSequence",
                                           SubSeq(data, offset + cs + 2, offset + tag_len)>>>>)
        ELSE decode_blocks(cs, data, offset + cs, cur_block_len + cs, blocks)

\* The same loop a turn at a time.  A turn works on the cursor, the length
\* of the text run in progress and the blocks pushed so far; it ends the
\* loop at a zero codepoint, goes on after an escape or a character, and
\* panics on an index or a slice out of range.
LoopStart == [offset |-> 0, cur_block_len |-> 0, blocks |-> <<>>]

decode_turn_unsliced(cs, data, lp) ==
    IF lp.offset + cs > Len(data) THEN Panic
    ELSE
    LET codepoint == IF cs = 2 THEN read_u16(data, lp.offset) ELSE data[lp.offset + 1]
        run == <<"Text", SubSeq(data, lp.offset - lp.cur_block_len + 1, lp.offset)>>
    IN  IF codepoint = 0
        THEN Ok([break |-> TRUE,
                 loop |-> [lp EXCEPT !.blocks = Append(lp.blocks, run)]])
        ELSE IF codepoint = 26
        THEN IF lp.offset + cs + 1 > Len(data) THEN Panic
             ELSE LET tag_len == data[lp.offset + cs + 1] IN
                  IF lp.offset + tag_len > Len(data) THEN Panic
                  ELSE Ok([break |-> FALSE,
                           loop |-> [offset |-> lp.offset + tag_len,
                                     cur_block_len |-> 0,
                                     blocks |-> lp.blocks \o <<run, <<"EscapeSequence",
                                         SubSeq(data, lp.offset + cs + 2,
                                                lp.offset + tag_len)>>>>]])
        ELSE Ok([break |-> FALSE,
                 loop |-> [lp EXCEPT !.offset = lp.offset + cs,
                                     !.cur_block_len = lp.cur_block_len + cs]])

decode_turn(cs, data, lp) ==
    IF lp.offset + cs > Len(data) THEN Panic
    ELSE
    LET codepoint == IF cs = 2 THEN read_u16(data, lp.offset) ELSE data[lp.offset + 1]
        run == <<"Text", SubSeq(data, lp.offset - lp.cur_block_len + 1, lp.offset)>>
    IN  IF codepoint = 0
        THEN Ok([break |-> TRUE,
                 loop |-> [lp EXCEPT !.blocks = Append(lp.blocks, run)]])
        ELSE IF codepoint = 26
        THEN IF lp.offset + cs + 1 > Len(data) THEN Panic
             ELSE LET tag_len == data[lp.offset + cs + 1] IN
                  IF lp.offset + cs + 1 > lp.offset + tag_len
                     \/ lp.offset + tag_len > Len(data)
                  THEN Panic
                  ELSE Ok([break |-> FALSE,
                           loop |-> [offset |-> lp.offset + tag_len,
                                     cur_block_len |-> 0,
                                     blocks |-> lp.blocks \o <<run, <<"EscapeSequence",
                                         SubSeq(data, lp.offset + cs + 2,
                                                lp.offset + tag_len)>>>>]])
        ELSE Ok([break |-> FALSE,
                 loop |-> [lp EXCEPT !.offset = lp.offset + cs,
                                     !.cur_block_len = lp.cur_block_len + cs]])

\* format!("{}", n)
RECURSIVE format_decimal(_)
format_decimal(n) ==
    IF n < 10 THEN <<48 + n>> ELSE Append(format_decimal(n \div 10), 48 + (n % 10))

\* encoding_rs decoders on a text run, for the bytes the model uses.
\* windows-1252: a byte below 0x80 or from 0xA0 is the code point of the
\* same value, 0x80 is U+20AC.  Shift_JIS: a byte below 0x80 is the code
\* point of the same value, 0xA1..0xDF are the half-width katakana from
\* U+FF61.  UTF-8: one- and two-byte sequences, U+FFFD for a byte that
\* starts neither.  UTF-16BE: each pair of bytes is the code point
\* hi * 256 + lo.
RECURSIVE utf8_decode(_)
utf8_decode(bytes) ==
    IF bytes = <<>> THEN <<>>
    ELSE IF bytes[1] < 128 THEN <<bytes[1]>> \o utf8_decode(Tail(bytes))
    ELSE IF bytes[1] >= 194 /\ bytes[1] < 224 /\ Len(bytes) >= 2
            /\ bytes[2] >= 128 /\ bytes[2] < 192
    THEN <<(bytes[1] - 192) * 64 + (bytes[2] - 128)>> \o utf8_decode(Tail(Tail(bytes)))
    ELSE <<65533>> \o utf8_decode(Tail(bytes))

decoder_decode(enc, bytes) ==
    IF enc = "UTF16"
    THEN [i \in 1..(Len(bytes) \div 2) |-> bytes[2 * i - 1] * 2^8 + bytes[2 * i]]
    ELSE IF enc = "UTF8" THEN utf8_decode(bytes)
    ELSE IF enc = "ShiftJIS"
    THEN [i \in 1..Len(bytes) |->
             IF bytes[i] >= 161 /\ bytes[i] <= 223 THEN 65377 + (bytes[i] - 161)
             ELSE bytes[i]]
    ELSE [i \in 1..Len(bytes) |-> IF bytes[i] = 128 THEN 8364 ELSE bytes[i]]

\* encoding_rs encoders on a text run.  UTF-16BE has no encoder: its output
\* encoding is UTF-8, as is UTF-8's own.  The single-byte encoders invert
\* the decoders above and write a code point they cannot map as the numeric
\* character reference "&#N;".
utf8_bytes(c) ==
    IF c < 2^7 THEN <<c>>
    ELSE IF c < 2^11 THEN <<192 + (c \div 2^6), 128 + (c % 2^6)>>
    ELSE <<224 + (c \div 2^12), 128 + ((c \div 2^6) % 2^6), 128 + (c % 2^6)>>

numeric_reference(c) == <<38, 35>> \o format_decimal(c) \o <<59>>

encoder_encode(enc, text) ==
    Concat([i \in 1..Len(text) |->
        LET c == text[i] IN
        IF enc \in {"UTF16", "UTF8"} THEN utf8_bytes(c)
        ELSE IF c < 128 THEN <<c>>
        ELSE IF enc = "ShiftJIS"
        THEN IF c >= 65377 /\ c <= 65439 THEN <<161 + (c - 65377)>>
             ELSE numeric_reference(c)
        ELSE IF c = 8364 THEN <<128>>
        ELSE IF c >= 160 /\ c <= 255 THEN <<c>>
        ELSE numeric_reference(c)])

\* format!("{:02X}", b)
hex_digit(n) == IF n < 10 THEN 48 + n ELSE 55 + n
format_02X(b) == <<hex_digit(b \div 16), hex_digit(b % 16)>>

\* The second half of decode: the String built from the blocks.
RECURSIVE decode_text(_, _)
decode_text(enc, blocks) ==
    IF blocks = <<>> THEN <<>>
    ELSE LET block == Head(blocks) IN
         (IF block[1] = "Text" THEN decoder_decode(enc, block[2])
          ELSE <<26>> \o format_decimal(Len(block[2])) \o <<48, 120>>
               \o Concat([i \in 1..Len(block[2]) |-> format_02X(block[2][i])]))
         \o decode_text(enc, Tail(blocks))

TextEncoding_decode(enc, data) ==
    LET blocks == decode_blocks(codepoint_size(enc), data, 0, 0, <<>>) IN
    IF blocks.ok THEN Ok(decode_text(enc, blocks.val)) ELSE Panic

\* str::find: the 0-based offset of the first match in text[offset..].
find_0x(text, offset) ==
    LET hits == {i \in (offset + 1)..(Len(text) - 1) : text[i] = 48 /\ text[i + 1] = 120} IN
    IF hits = {} THEN None
    ELSE Some((CHOOSE i \in hits : \A j \in hits : i <= j) - 1 - offset)

find_escape(text, offset) ==
    LET hits == {i \in (offset + 1)..Len(text) : text[i] = 26} IN
    IF hits = {} THEN None
    ELSE Some((CHOOSE i \in hits : \A j \in hits : i <= j) - 1 - offset)

\* str::parse::<usize> on decimal digits (the model's counts have fewer
\* than nine of them).
RECURSIVE decimal_value(_, _)
decimal_value(s, acc) ==
    IF s = <<>> THEN acc ELSE decimal_value(Tail(s), acc * 10 + (Head(s) - 48))

parse_usize(s) ==
    IF s # <<>> /\ Len(s) <= 8 /\ \A i \in 1..Len(s) : s[i] >= 48 /\ s[i] <= 57
    THEN Some(decimal_value(s, 0)) ELSE None

hex_value(c) ==
    IF c >= 48 /\ c <= 57 THEN c - 48
    ELSE IF c >= 65 /\ c <= 70 THEN c - 55
    ELSE IF c >= 97 /\ c <= 102 THEN c - 87
    ELSE -1

\* u64::from_str_radix(tag_str, 16) followed by to_be_bytes()[8 - tag_len..]:
\* the last tag_len bytes of the value.  An empty string or a character that
\* is no hex digit is an error; 8 - tag_len underflows when tag_len > 8.
tag_bytes_of(tag_str, tag_len) ==
    IF tag_str = <<>> \/ tag_len > 8
       \/ \E i \in 1..Len(tag_str) : hex_value(tag_str[i]) < 0
    THEN None
    ELSE Some([i \in 1..tag_len |->
                  hex_value(tag_str[2 * i - 1]) * 16 + hex_value(tag_str[2 * i])])

RECURSIVE encode_from(_, _, _, _)
encode_from(enc, text, offset, out) ==
    IF offset >= Len(text) THEN Ok(Append(out, 0))
    ELSE IF text[offset + 1] = 26
    THEN LET tag_start == find_0x(text, offset) IN
         IF ~IsSome(tag_start) THEN Panic
         ELSE
         LET ts == Unwrap(tag_start)
             tag_len == parse_usize(SubSeq(text, offset + 2, offset + ts))
         IN  IF ~IsSome(tag_len) THEN Panic
             ELSE IF offset + ts + 2 + Unwrap(tag_len) * 2 > Len(text) THEN Panic
             ELSE
             LET n == Unwrap(tag_len)
                 tag_str == SubSeq(text, offset + ts + 3, offset + ts + 2 + n * 2)
                 tag_bytes == tag_bytes_of(tag_str, n)
             IN  IF ~IsSome(tag_bytes) THEN Panic
                 ELSE encode_from(enc, text, offset + n * 2 + ts + 2,
                          out \o <<26, AsU8(n + 1 + codepoint_size(enc))>>
                              \o Unwrap(tag_bytes))
    ELSE LET found == find_escape(text, offset)
             next_sub_index == IF IsSome(found) THEN Unwrap(found) ELSE Len(text) - offset
         IN  encode_from(enc, text, offset + next_sub_index,
                 out \o encoder_encode(enc, SubSeq(text, offset + 1, offset + next_sub_index)))

TextEncoding_encode(enc, text) == encode_from(enc, text, 0, <<>>)


-----------------------------------------------------------------------------
(* BMG: the messages decode and encode are run on                          *)

MaxItems == 2

\* One plain character as it is stored under each encoding.
PlainPool(enc) ==
    IF enc = "UTF16" THEN {<<0, 65>>, <<1, 65>>}
    ELSE IF enc = "UTF8" THEN {<<65>>, <<195, 169>>}
    ELSE IF enc = "ShiftJIS" THEN {<<65>>, <<177>>}
    ELSE {<<65>>, <<128>>}

\* Escape payloads: empty, short, with a zero and a 0x1A byte inside, of
\* eight bytes and of nine.
PayloadPool == {<<>>, <<170>>, <<0, 26>>, <<170, 187, 204>>,
                <<1, 2, 3, 4, 5, 6, 7, 8>>, <<1, 2, 3, 4, 5, 6, 7, 8, 9>>}

ItemPool(enc) == {<<"Plain", b>> : b \in PlainPool(enc)}
                 \cup {<<"Escape", b>> : b \in PayloadPool}

RECURSIVE SeqsUpTo(_, _)
SeqsUpTo(S, n) ==
    IF n = 0 THEN {<<>>}
    ELSE SeqsUpTo(S, n - 1)
         \cup {Append(q, x) : q \in {r \in SeqsUpTo(S, n - 1) : Len(r) = n - 1}, x \in S}

\* The stored form of an item: a plain character as it is, an escape as the
\* codepoint 0x1A, the total tag length in one byte, and the payload.
ItemBytes(enc, item) ==
    IF item[1] = "Plain" THEN item[2]
    ELSE Zeros(codepoint_size(enc) - 1) \o <<26>>
         \o <<Len(item[2]) + 1 + codepoint_size(enc)>> \o item[2]

MessageBytes(enc, items) ==
    Concat([i \in 1..Len(items) |-> ItemBytes(enc, items[i])])
    \o Zeros(codepoint_size(enc))

\* How the literal shows an item: the character, or the control character
\* 0x1A, the payload's byte count in decimal, "0x" and the payload in
\* upper-case hex.
ItemLiteral(enc, item) ==
    IF item[1] = "Plain" THEN decoder_decode(enc, item[2])
    ELSE <<26>> \o format_decimal(Len(item[2])) \o <<48, 120>>
         \o Concat([i \in 1..Len(item[2]) |-> format_02X(item[2][i])])

MessageLiteral(enc, items) == Concat([i \in 1..Len(items) |-> ItemLiteral(enc, items[i])])

-----------------------------------------------------------------------------
(* BMG: the steps of a decode followed by an encode                        *)

TextIdle ==
    /\ text_pc = "idle" /\ text_enc = "Undefined" /\ text_items = <<>>
    /\ text_in = <<>> /\ text_lit = <<>> /\ text_out = <<>>
    /\ text_loop = LoopStart

InitText ==
    /\ text_pc = "start"
    /\ text_enc \in Encodings
    /\ text_items \in SeqsUpTo(ItemPool(text_enc), MaxItems)
    /\ text_in = MessageBytes(text_enc, text_items)
    /\ text_lit = <<>> /\ text_out = <<>>
    /\ text_loop = LoopStart

TextDecode ==
    /\ text_pc = "start"
    /\ LET r == TextEncoding_decode(text_enc, text_in) IN
       IF r.ok THEN text_pc' = "decoded" /\ text_lit' = r.val
       ELSE text_pc' = "decode_panic" /\ UNCHANGED text_lit
    /\ UNCHANGED <<text_enc, text_items, text_in, text_out, text_loop>>
    /\ UNCHANGED notText

TextEncode ==
    /\ text_pc = "decoded"
    /\ LET r == TextEncoding_encode(text_enc, text_lit) IN
       IF r.ok THEN text_pc' = "encoded" /\ text_out' = r.val
       ELSE text_pc' = "encode_panic" /\ UNCHANGED text_out
    /\ UNCHANGED <<text_enc, text_items, text_in, text_lit, text_loop>>
    /\ UNCHANGED notText

NextText == TextDecode \/ TextEncode

\* C4: for every well-formed message under each of the five encodings,
\* decode renders each escape as 0x1A, the decimal payload byte count, "0x"
\* and the payload in upper-case hex, and encode of the decoded literal
\* completes and returns the original bytes up to and including the
\* terminator.
C4_EscapeRoundTrip ==
    /\ text_pc \notin {"decode_panic", "encode_panic"}
    /\ text_pc \in {"decoded", "encoded"} => text_lit = MessageLiteral(text_enc, text_items)
    /\ text_pc = "encoded" => text_out = text_in


-----------------------------------------------------------------------------
(* BMG: the archive and its sections                                       *)

MESGbmg1 == <<77, 69, 83, 71, 98, 109, 103, 49>>
INF1 == <<73, 78, 70, 49>>
DAT1 == <<68, 65, 84, 49>>
MID1 == <<77, 73, 68, 49>>

\* A variant that takes the byte 5 for UTF-8 as well.
from_byte_wide(b) ==
    IF b = 0 THEN Some("Undefined")
    ELSE IF b = 1 THEN Some("CP1252")
    ELSE IF b = 2 THEN Some("UTF16")
    ELSE IF b = 3 THEN Some("ShiftJIS")
    ELSE IF b = 4 \/ b = 5 THEN Some("UTF8")
    ELSE None

from_byte(b) ==
    IF b = 0 THEN Some("Undefined")
    ELSE IF b = 1 THEN Some("CP1252")
    ELSE IF b = 2 THEN Some("UTF16")
    ELSE IF b = 3 THEN Some("ShiftJIS")
    ELSE IF b = 4 THEN Some("UTF8")
    ELSE None

to_byte(enc) ==
    IF enc = "Undefined" THEN 0
    ELSE IF enc = "CP1252" THEN 1
    ELSE IF enc = "UTF16" THEN 2
    ELSE IF enc = "ShiftJIS" THEN 3
    ELSE 4

to_hex_string(bytes) == Concat([i \in 1..Len(bytes) |-> format_02X(bytes[i])])

\* from_hex_string: one byte per pair of characters, an error when a pair
\* is no hex number; an odd last character is dropped.
from_hex_string(string) ==
    IF \E i \in 1..(2 * (Len(string) \div 2)) : hex_value(string[i]) < 0
    THEN None
    ELSE Some([i \in 1..(Len(string) \div 2) |->
                  hex_value(string[2 * i - 1]) * 16 + hex_value(string[2 * i])])

\* The header's unknown fields (_unk0 to _unk3, offsets 0x11 to 0x1F) are
\* held as the fifteen bytes they are read from and written to.
BmgHeader_new(text_encoding) ==
    [file_size |-> 32, num_blocks |-> 2, encoding |-> text_encoding, unk |-> Zeros(15)]

TextIndexTable_new ==
    [section_size |-> 16, num_entries |-> 0, entry_size |-> 4, bmg_file_id |-> 0,
     default_color |-> 0, unk1 |-> 0, messages |-> <<>>]

StringPool_new == [section_size |-> 8, strings |-> <<>>]

MessageIdTable_new ==
    [section_size |-> 16, num_messages |-> 0, format |-> 0, info |-> 0,
     message_ids |-> <<>>]

Bmg_new(text_encoding) ==
    [header |-> BmgHeader_new(text_encoding),
     text_index_table |-> TextIndexTable_new,
     string_pool |-> StringPool_new,
     message_id_table |-> None,
     unknown_sections |-> <<>>]

is_block_aligned(b) == b.header.encoding = "Undefined"

\* message_id_table_mut: allocate the table, and count its block, when it
\* is not there yet.
message_id_table_mut(b) ==
    IF ~IsSome(b.message_id_table)
    THEN [b EXCEPT !.message_id_table = Some(MessageIdTable_new),
                   !.header.num_blocks = @ + 1]
    ELSE b

set_file_id(b, id) == [b EXCEPT !.text_index_table.bmg_file_id = id]

set_default_color(b, color) == [b EXCEPT !.text_index_table.default_color = color]

set_message_id_format(b, format) ==
    LET b1 == message_id_table_mut(b) IN
    [b1 EXCEPT !.message_id_table = Some([Unwrap(@) EXCEPT !.format = format])]

set_message_id_info(b, info) ==
    LET b1 == message_id_table_mut(b) IN
    [b1 EXCEPT !.message_id_table = Some([Unwrap(@) EXCEPT !.info = info])]

\* A variant that takes the width of the entry being appended as the record
\* width, without comparing it to the width so far.
TextIndexTable_add_message_last(t, offset, attributes) ==
    LET entry_size == AsU16(AsU16(Len(attributes)) + 4) IN
    [t EXCEPT !.num_entries = AsU16(@ + 1),
              !.entry_size = entry_size,
              !.section_size = @ + entry_size,
              !.messages = Append(@, [text_offset |-> offset, attributes |-> attributes])]

TextIndexTable_add_message(t, offset, attributes) ==
    LET entry_size == Max(t.entry_size, AsU16(AsU16(Len(attributes)) + 4)) IN
    [t EXCEPT !.num_entries = AsU16(@ + 1),
              !.entry_size = entry_size,
              !.section_size = @ + entry_size,
              !.messages = Append(@, [text_offset |-> offset, attributes |-> attributes])]

StringPool_add_message(p, string) ==
    [p EXCEPT !.section_size = @ + Len(string), !.strings = @ \o string]

MessageIdTable_add_message(m, message_id) ==
    [m EXCEPT !.section_size = @ + 4,
              !.num_messages = AsU16(@ + 1),
              !.message_ids = Append(@, message_id)]

RECURSIVE SumSizes(_)
SumSizes(sections) ==
    IF sections = <<>> THEN 0 ELSE Head(sections).section_size + SumSizes(Tail(sections))

\* Bmg::add_message: a panic when the text does not encode or the
\* attributes are no hex string.
Bmg_add_message(b, message) ==
    LET encoded_message == TextEncoding_encode(b.header.encoding, message.message)
        attributes == from_hex_string(message.attributes)
    IN  IF ~encoded_message.ok \/ ~IsSome(attributes) THEN Panic
        ELSE
        LET b1 == [b EXCEPT
                     !.text_index_table =
                         TextIndexTable_add_message(@, Len(b.string_pool.strings),
                                                    Unwrap(attributes)),
                     !.string_pool = StringPool_add_message(@, encoded_message.val)]
            b2 == IF IsSome(message.index)
                  THEN [message_id_table_mut(b1) EXCEPT
                           !.message_id_table =
                               Some(MessageIdTable_add_message(
                                        Unwrap(message_id_table_mut(b1).message_id_table),
                                        Unwrap(message.index)))]
                  ELSE b1
        IN  Ok([b2 EXCEPT !.header.file_size =
                   32 + b2.text_index_table.section_size + b2.string_pool.section_size
                   + (IF IsSome(b2.message_id_table)
                      THEN Unwrap(b2.message_id_table).section_size ELSE 0)
                   + SumSizes(b2.unknown_sections)])

\* From<BmgSerialize>: a new Bmg, the metadata, then every message in order.
RECURSIVE add_messages(_, _)
add_messages(r, messages) ==
    IF messages = <<>> \/ ~r.ok THEN r
    ELSE add_messages(Bmg_add_message(r.val, Head(messages)), Tail(messages))

Bmg_from(ser) ==
    LET b0 == set_default_color(set_file_id(Bmg_new(ser.metadata.encoding),
                                            ser.metadata.bmg_file_id),
                                ser.metadata.default_color)
        b1 == IF IsSome(ser.metadata.message_id_format)
              THEN set_message_id_format(b0, Unwrap(ser.metadata.message_id_format))
              ELSE b0
        b2 == IF IsSome(ser.metadata.message_id_info)
              THEN set_message_id_info(b1, Unwrap(ser.metadata.message_id_info))
              ELSE b1
    IN  add_messages(Ok(b2), ser.messages)


-----------------------------------------------------------------------------
(* BMG: writing an archive                                                 *)

BmgHeader_write(h) ==
    MESGbmg1
    \o (IF h.encoding = "Undefined" THEN U32BE(h.num_blocks) ELSE U32BE(h.file_size))
    \o U32BE(h.num_blocks)
    \o <<to_byte(h.encoding)>>
    \o h.unk

TextIndexEntry_write(e) == U32BE(e.text_offset) \o e.attributes

TextIndexTable_write(t) ==
    INF1 \o U32BE(t.section_size) \o U16BE(t.num_entries) \o U16BE(t.entry_size)
    \o U16BE(t.bmg_file_id) \o <<t.default_color, t.unk1>>
    \o Concat([i \in 1..Len(t.messages) |-> TextIndexEntry_write(t.messages[i])])

StringPool_write(p) == DAT1 \o U32BE(p.section_size) \o p.strings

MessageId_write(m) == U32BE(m.id * 2^8 + m.sub_id)

MessageIdTable_write(m) ==
    MID1 \o U32BE(m.section_size) \o U16BE(m.num_messages) \o <<m.format, m.info>>
    \o U32BE(0)
    \o Concat([i \in 1..Len(m.message_ids) |-> MessageId_write(m.message_ids[i])])

UnknownSection_write(u) == u.magic \o U32BE(u.section_size) \o u.data

RECURSIVE write_unknown(_, _, _)
write_unknown(out, aligned, sections) ==
    IF sections = <<>> THEN out
    ELSE write_unknown((IF aligned THEN pad_to(out, 32) ELSE out)
                           \o UnknownSection_write(Head(sections)),
                       aligned, Tail(sections))

\* Bmg::write: the header, INF1, DAT1, MID1 when there is one, then the
\* unknown sections; each section after INF1 padded to a multiple of 32
\* when the archive is block aligned.
Bmg_write(b) ==
    LET aligned == is_block_aligned(b)
        out1 == BmgHeader_write(b.header) \o TextIndexTable_write(b.text_index_table)
        out2 == (IF aligned THEN pad_to(out1, 32) ELSE out1)
                \o StringPool_write(b.string_pool)
        out3 == IF IsSome(b.message_id_table)
                THEN (IF aligned THEN pad_to(out2, 32) ELSE out2)
                     \o MessageIdTable_write(Unwrap(b.message_id_table))
                ELSE out2
    IN  write_unknown(out3, aligned, b.unknown_sections)

-----------------------------------------------------------------------------
(* BMG: reading an archive                                                 *)
(* A read gives Ok(value), Err(error) or, where the code indexes or slices *)
(* past the end of the data, Panic.                                        *)



BmgHeader_read(data) ==
    IF ~InRange(data, 0, 8) THEN Panic
    ELSE IF Slice(data, 0, 8) # MESGbmg1 THEN Err(<<"InvalidHeaderMagic">>)
    ELSE IF ~InRange(data, 0, 17) THEN Panic
    ELSE IF ~IsSome(from_byte(data[17])) THEN Err(<<"InvalidTextEncoding", data[17]>>)
    ELSE IF ~InRange(data, 0, 32) THEN Panic
    ELSE Ok([file_size |-> read_u32(data, 8),
             num_blocks |-> read_u32(data, 12),
             encoding |-> Unwrap(from_byte(data[17])),
             unk |-> Slice(data, 17, 32)])

TextIndexEntry_read(data, len) ==
    [text_offset |-> read_u32(data, 0), attributes |-> Slice(data, 4, len)]

\* chunks_exact(entry_size).take(num_entries) over the section's body.
TextIndexTable_read(data) ==
    IF ~InRange(data, 0, 4) THEN Panic
    ELSE IF Slice(data, 0, 4) # INF1 THEN Err(<<"InvalidSectionMagic">>)
    ELSE IF ~InRange(data, 0, 16) THEN Panic
    ELSE
    LET section_length == read_u32(data, 4)
        num_entries == read_u16(data, 8)
        entry_size == read_u16(data, 10)
    IN  IF ~InRange(data, 16, section_length) \/ entry_size = 0 THEN Panic
        ELSE
        LET count == Min(num_entries, (section_length - 16) \div entry_size) IN
        IF count > 0 /\ entry_size < 4 THEN Panic
        ELSE Ok([section_size |-> section_length,
                 num_entries |-> num_entries,
                 entry_size |-> entry_size,
                 bmg_file_id |-> read_u16(data, 12),
                 default_color |-> data[15],
                 unk1 |-> data[16],
                 messages |-> [i \in 1..count |->
                     TextIndexEntry_read(Slice(data, 16 + (i - 1) * entry_size,
                                               16 + i * entry_size), entry_size)]])

StringPool_read(data) ==
    IF ~InRange(data, 0, 4) THEN Panic
    ELSE IF Slice(data, 0, 4) # DAT1 THEN Err(<<"InvalidSectionMagic">>)
    ELSE IF ~InRange(data, 0, 8) THEN Panic
    ELSE
    LET section_size == read_u32(data, 4) IN
    IF ~InRange(data, 8, section_size) THEN Panic
    ELSE Ok([section_size |-> section_size, strings |-> Slice(data, 8, section_size)])

MessageId_read(data) ==
    LET value == read_u32(data, 0) IN
    [id |-> ((value - (value % 2^8)) \div 2^8) % 2^24, sub_id |-> value % 2^8]

MessageIdTable_read(data) ==
    IF ~InRange(data, 0, 4) THEN Panic
    ELSE IF Slice(data, 0, 4) # MID1 THEN Err(<<"InvalidSectionMagic">>)
    ELSE IF ~InRange(data, 0, 12) THEN Panic
    ELSE
    LET section_size == read_u32(data, 4) IN
    IF ~InRange(data, 16, section_size) THEN Panic
    ELSE Ok([section_size |-> section_size,
             num_messages |-> read_u16(data, 8),
             format |-> data[11],
             info |-> data[12],
             message_ids |-> [i \in 1..((section_size - 16) \div 4) |->
                 MessageId_read(Slice(data, 16 + (i - 1) * 4, 16 + i * 4))]])

UnknownSection_read(data) ==
    IF ~InRange(data, 0, 8) THEN Panic
    ELSE
    LET section_size == read_u32(data, 4) IN
    IF ~InRange(data, 8, section_size) THEN Panic
    ELSE Ok([magic |-> Slice(data, 0, 4),
             section_size |-> section_size,
             data |-> Slice(data, 8, section_size)])

\* while bmg.is_block_aligned() && section_start % 32 != 0 { section_start += 1 }
align(b, section_start) ==
    IF is_block_aligned(b) THEN section_start + ((32 - (section_start % 32)) % 32)
    ELSE section_start

\* The loop of Bmg::read: one section per declared block, told by its magic;
\* a section of a kind read before replaces the earlier one.
RECURSIVE read_sections(_, _, _, _)
read_sections(data, b, section_start, blocks) ==
    IF blocks <= 0 THEN Ok(b)
    ELSE
    LET start == align(b, section_start) IN
    IF ~InRange(data, start, start + 4) THEN Panic
    ELSE
    LET magic == Slice(data, start, start + 4)
        rest == Slice(data, start, Len(data))
    IN  IF magic = INF1 THEN
            LET r == TextIndexTable_read(rest) IN
            IF ~r.ok THEN r
            ELSE read_sections(data, [b EXCEPT !.text_index_table = r.val],
                               start + r.val.section_size, blocks - 1)
        ELSE IF magic = DAT1 THEN
            LET r == StringPool_read(rest) IN
            IF ~r.ok THEN r
            ELSE read_sections(data, [b EXCEPT !.string_pool = r.val],
                               start + r.val.section_size, blocks - 1)
        ELSE IF magic = MID1 THEN
            LET r == MessageIdTable_read(rest) IN
            IF ~r.ok THEN r
            ELSE read_sections(data, [b EXCEPT !.message_id_table = Some(r.val)],
                               start + r.val.section_size, blocks - 1)
        ELSE
            LET r == UnknownSection_read(rest) IN
            IF ~r.ok THEN r
            ELSE read_sections(data, [b EXCEPT !.unknown_sections = Append(@, r.val)],
                               start + r.val.section_size, blocks - 1)

Bmg_read(data) ==
    LET h == BmgHeader_read(data) IN
    IF ~h.ok THEN h
    ELSE read_sections(data,
                       [header |-> h.val,
                        text_index_table |-> TextIndexTable_new,
                        string_pool |-> StringPool_new,
                        message_id_table |-> None,
                        unknown_sections |-> <<>>],
                       32, h.val.num_blocks)


-----------------------------------------------------------------------------
(* BMG: building an archive                                                *)

MaxMessages == 3

A_text == <<65>>
NoAttributes == <<>>
TwoAttributes == <<65, 65, 66, 66>>                        \* "AABB"
FiveAttributes == <<48, 49, 48, 50, 48, 51, 48, 52, 48, 53>>   \* "0102030405"
BadAttributes == <<71, 49>>                                \* "G1"

MessageIds == {None, Some([id |-> 1, sub_id |-> 2])}

MessagePool ==
    {[message |-> A_text, index |-> i, attributes |-> a] :
        i \in MessageIds, a \in {NoAttributes, TwoAttributes, FiveAttributes}}
    \cup {[message |-> A_text, index |-> None, attributes |-> BadAttributes]}

GoodMessages == {m \in MessagePool : IsSome(from_hex_string(m.attributes))}

FileIds == {7}
Colors == {3}
Formats == {2}
Infos == {1}

SerializePool(enc) ==
    {[metadata |-> [encoding |-> enc, bmg_file_id |-> 7, default_color |-> 3,
                    message_id_format |-> f, message_id_info |-> i],
      messages |-> ms] :
        f \in {None, Some(2)}, i \in {None, Some(1)},
        ms \in SeqsUpTo(GoodMessages, MaxMessages - 1)}

BmgIdle ==
    /\ bmg_pc = "idle"
    /\ bmg = None
    /\ appended = <<>>
    /\ bmg_in = <<>>
    /\ bmg_out = <<>>
    /\ bmg_ser = None

InitBmg ==
    /\ bmg_pc = "new"
    /\ bmg \in {Bmg_new(enc) : enc \in Encodings}
    /\ appended = <<>>
    /\ bmg_in = <<>>
    /\ bmg_out = <<>>
    /\ bmg_ser = None

Building == bmg_pc \in {"new", "building"}

SetFileId ==
    /\ Building
    /\ \E id \in FileIds : bmg' = set_file_id(bmg, id)
    /\ bmg_pc' = "building"
    /\ UNCHANGED <<appended, bmg_in, bmg_out, bmg_ser>>
    /\ UNCHANGED notBmg

SetDefaultColor ==
    /\ Building
    /\ \E color \in Colors : bmg' = set_default_color(bmg, color)
    /\ bmg_pc' = "building"
    /\ UNCHANGED <<appended, bmg_in, bmg_out, bmg_ser>>
    /\ UNCHANGED notBmg

SetMessageIdFormat ==
    /\ Building
    /\ \E format \in Formats : bmg' = set_message_id_format(bmg, format)
    /\ bmg_pc' = "building"
    /\ UNCHANGED <<appended, bmg_in, bmg_out, bmg_ser>>
    /\ UNCHANGED notBmg

SetMessageIdInfo ==
    /\ Building
    /\ \E info \in Infos : bmg' = set_message_id_info(bmg, info)
    /\ bmg_pc' = "building"
    /\ UNCHANGED <<appended, bmg_in, bmg_out, bmg_ser>>
    /\ UNCHANGED notBmg

AddMessage ==
    /\ Building
    /\ Len(appended) < MaxMessages
    /\ \E message \in MessagePool :
          LET r == Bmg_add_message(bmg, message) IN
          IF r.ok
          THEN /\ bmg' = r.val
               /\ appended' = Append(appended, message)
               /\ bmg_pc' = "building"
          ELSE /\ bmg_pc' = "panic"
               /\ UNCHANGED <<bmg, appended>>
    /\ UNCHANGED <<bmg_in, bmg_out, bmg_ser>>
    /\ UNCHANGED notBmg

\* Deserialize: the Bmg is made from the interchange form in one go.
FromSerialize ==
    /\ bmg_pc = "new"
    /\ \E ser \in SerializePool(bmg.header.encoding) :
          LET r == Bmg_from(ser) IN
          /\ r.ok
          /\ bmg' = r.val
          /\ appended' = ser.messages
    /\ bmg_pc' = "building"
    /\ UNCHANGED <<bmg_in, bmg_out, bmg_ser>>
    /\ UNCHANGED notBmg

Write ==
    /\ Building
    /\ bmg_out' = Bmg_write(bmg)
    /\ bmg_pc' = "written"
    /\ UNCHANGED <<bmg, appended, bmg_in, bmg_ser>>
    /\ UNCHANGED notBmg

NextBmg ==
    \/ SetFileId
    \/ SetDefaultColor
    \/ SetMessageIdFormat
    \/ SetMessageIdInfo
    \/ AddMessage
    \/ FromSerialize
    \/ Write


-----------------------------------------------------------------------------
(* BMG: properties of a built archive                                      *)

Built == bmg_pc \in {"building", "written"}

AttributeBytes(message) == Unwrap(from_hex_string(message.attributes))

AttributeLengths == [i \in 1..Len(appended) |-> Len(AttributeBytes(appended[i]))]

MaxAttributeLength ==
    IF appended = <<>> THEN 0
    ELSE CHOOSE n \in {AttributeLengths[i] : i \in 1..Len(appended)} :
            \A i \in 1..Len(appended) : AttributeLengths[i] <= n

EntriesKeepOwnAttributes ==
    /\ Len(bmg.text_index_table.messages) = Len(appended)
    /\ \A i \in 1..Len(appended) :
          bmg.text_index_table.messages[i].attributes = AttributeBytes(appended[i])

\* The Bmg is what add_message calls alone, on a new Bmg, make of the
\* appended messages.
OnlyAddMessage ==
    Ok(bmg) = add_messages(Ok(Bmg_new(bmg.header.encoding)), appended)

SomeIdAppended == \E i \in 1..Len(appended) : IsSome(appended[i].index)

C7_IdCountEqualsEntryCount ==
    (Built /\ OnlyAddMessage /\ IsSome(bmg.message_id_table)) =>
        Len(Unwrap(bmg.message_id_table).message_ids) = bmg.text_index_table.num_entries

\* C8: after any sequence of builder operations on a new Bmg the message-id
\* table is present only if at least one appended message carried an id.
C8_TableOnlyWithAnId ==
    (Built /\ IsSome(bmg.message_id_table)) => SomeIdAppended


-----------------------------------------------------------------------------
(* BMG: files on disk                                                      *)
(* A file is a header and sections in any order, each section starting on  *)
(* a multiple of 32 under the Undefined encoding.                          *)

MaxUnknown == 2

XTRA == <<88, 84, 82, 65>>
YTRA == <<89, 84, 82, 65>>
ZTRA == <<90, 84, 82, 65>>

UnknownPool ==
    <<[magic |-> XTRA, section_size |-> 11, data |-> <<1, 2, 3>>],
      [magic |-> YTRA, section_size |-> 8, data |-> <<>>],
      [magic |-> ZTRA, section_size |-> 9, data |-> <<255>>]>>

UnknownChoices == {UnknownPool[i] : i \in 1..Min(MaxUnknown, Len(UnknownPool))}

\* The three known sections of a file of one message, "A" with the id 1.2.
FileInf1 ==
    TextIndexTable_write([section_size |-> 20, num_entries |-> 1, entry_size |-> 4,
                          bmg_file_id |-> 7, default_color |-> 3, unk1 |-> 0,
                          messages |-> <<[text_offset |-> 0, attributes |-> <<>>]>>])
FileDat1 == StringPool_write([section_size |-> 10, strings |-> <<65, 0>>])
FileMid1 ==
    MessageIdTable_write([section_size |-> 20, num_messages |-> 1, format |-> 2,
                          info |-> 1, message_ids |-> <<[id |-> 1, sub_id |-> 2]>>])

SectionChoices(with_mid1, unknown) ==
    {FileInf1, FileDat1} \cup (IF with_mid1 THEN {FileMid1} ELSE {})
    \cup {UnknownSection_write(u) : u \in unknown}

RECURSIVE Layout(_, _, _)
Layout(out, aligned, sections) ==
    IF sections = <<>> THEN out
    ELSE Layout((IF aligned THEN pad_to(out, 32) ELSE out) \o Head(sections),
                aligned, Tail(sections))

RECURSIVE TotalLen(_)
TotalLen(sections) ==
    IF sections = <<>> THEN 0 ELSE Len(Head(sections)) + TotalLen(Tail(sections))

FileOf(enc, sections) ==
    Layout(BmgHeader_write([file_size |-> 32 + TotalLen(sections),
                            num_blocks |-> Len(sections),
                            encoding |-> enc, unk |-> Zeros(15)]),
           enc = "Undefined", sections)

BmgFiles ==
    {FileOf(enc, order) :
        enc \in Encodings,
        order \in UNION {Orders(SectionChoices(m, u)) :
                            m \in BOOLEAN, u \in SUBSET UnknownChoices}}

InitBmgFile ==
    /\ bmg_pc = "file"
    /\ bmg = None
    /\ appended = <<>>
    /\ bmg_in \in BmgFiles
    /\ bmg_out = <<>>
    /\ bmg_ser = None

ReadFile ==
    /\ bmg_pc = "file"
    /\ LET r == Bmg_read(bmg_in) IN
       IF r.ok
       THEN bmg' = r.val /\ bmg_pc' = "read"
       ELSE bmg' = bmg /\ bmg_pc' = (IF r = Panic THEN "read_panic" ELSE "read_error")
    /\ UNCHANGED <<appended, bmg_in, bmg_out, bmg_ser>>
    /\ UNCHANGED notBmg

WriteAfterRead ==
    /\ bmg_pc = "read"
    /\ bmg_out' = Bmg_write(bmg)
    /\ bmg_pc' = "rewritten"
    /\ UNCHANGED <<bmg, appended, bmg_in, bmg_ser>>
    /\ UNCHANGED notBmg

NextBmgFile == ReadFile \/ WriteAfterRead

\* The sections of a file in the order they lie in it: magic, declared
\* length and body of each.
RECURSIVE SectionsFrom(_, _, _, _)
SectionsFrom(data, aligned, start, blocks) ==
    LET s == IF aligned THEN start + ((32 - (start % 32)) % 32) ELSE start IN
    IF blocks <= 0 \/ ~InRange(data, s, s + 8) THEN <<>>
    ELSE <<[magic |-> Slice(data, s, s + 4),
            section_size |-> read_u32(data, s + 4),
            body |-> Slice(data, s + 8, s + read_u32(data, s + 4))]>>
         \o SectionsFrom(data, aligned, s + read_u32(data, s + 4), blocks - 1)

SectionsOf(data) == SectionsFrom(data, data[17] = 0, 32, read_u32(data, 12))

IsUnknown(section) == section.magic \notin {INF1, DAT1, MID1}

\* C6: Bmg::read followed by Bmg::write re-emits every unknown section with
\* the same magic, declared length and body, at the same position among the
\* sections as in the input, wherever it lay.
C6_UnknownSectionsKeepTheirPlace ==
    bmg_pc = "rewritten" =>
        LET in == SectionsOf(bmg_in)
            out == SectionsOf(bmg_out)
        IN  /\ Len(out) = Len(in)
            /\ \A i \in 1..Len(in) : IsUnknown(in[i]) => out[i] = in[i]


-----------------------------------------------------------------------------
(* BMG: encoding what decode gave                                          *)

\* The message decode gave, as the interchange form carries it.
DecodedMessage == [message |-> text_lit, index |-> None, attributes |-> NoAttributes]

\* C19: for every literal TextEncoding::decode produces from valid message
\* bytes, escape payloads of any length included (empty, longer than 8
\* bytes), TextEncoding::encode and Bmg::add_message complete and return
\* bytes instead of aborting.
C19_EncodeCompletes ==
    /\ text_pc # "encode_panic"
    /\ text_pc \in {"decoded", "encoded"} =>
          /\ TextEncoding_encode(text_enc, text_lit).ok
          /\ Bmg_add_message(Bmg_new(text_enc), DecodedMessage).ok


-----------------------------------------------------------------------------
(* BMG: where write puts the sections and where read looks for them        *)

\* The sections Bmg::write emits after the header, as bytes, in its order.
written_sections(b) ==
    <<TextIndexTable_write(b.text_index_table), StringPool_write(b.string_pool)>>
    \o (IF IsSome(b.message_id_table)
        THEN <<MessageIdTable_write(Unwrap(b.message_id_table))>> ELSE <<>>)
    \o [i \in 1..Len(b.unknown_sections) |-> UnknownSection_write(b.unknown_sections[i])]

\* The length of the output when each section is about to be written:
\* padded to a multiple of 32 first when the archive is block aligned.
RECURSIVE starts_after(_, _, _)
starts_after(pos, aligned, sections) ==
    IF sections = <<>> THEN <<>>
    ELSE LET start == IF aligned THEN pos + ((32 - (pos % 32)) % 32) ELSE pos
         IN  <<start>> \o starts_after(start + Len(Head(sections)), aligned, Tail(sections))

write_starts(b) == starts_after(32, is_block_aligned(b), written_sections(b))

\* The values section_start takes in the loop of Bmg::read, one per block
\* it reads: aligned when the archive is block aligned, then moved on by
\* the length the section declares. The list ends where read stops.
RECURSIVE read_starts_from(_, _, _, _)
read_starts_from(data, aligned, section_start, blocks) ==
    LET start == IF aligned THEN section_start + ((32 - (section_start % 32)) % 32)
                 ELSE section_start
    IN  IF blocks <= 0 \/ ~InRange(data, start, start + 8) THEN <<>>
        ELSE <<start>> \o read_starts_from(data, aligned,
                                           start + read_u32(data, start + 4), blocks - 1)

read_starts(data) == read_starts_from(data, data[17] = 0, 32, read_u32(data, 12))

SectionLies(i) ==
    Slice(bmg_out, write_starts(bmg)[i],
          write_starts(bmg)[i] + Len(written_sections(bmg)[i])) = written_sections(bmg)[i]

SectionEnd(i) == write_starts(bmg)[i] + Len(written_sections(bmg)[i])

SlotHoldsBlockCount == read_u32(bmg_out, 8) = Len(written_sections(bmg))

SectionsOnBlocks ==
    \A i \in 1..Len(write_starts(bmg)) :
        /\ write_starts(bmg)[i] % 32 = 0
        /\ i > 1 => \A k \in (SectionEnd(i - 1) + 1)..write_starts(bmg)[i] : bmg_out[k] = 0

SlotHoldsFileSize == read_u32(bmg_out, 8) = Len(bmg_out)

SectionsPacked ==
    \A i \in 1..Len(write_starts(bmg)) :
        write_starts(bmg)[i] = IF i = 1 THEN 32 ELSE SectionEnd(i - 1)

ReadFindsSections ==
    /\ Bmg_read(bmg_out).ok
    /\ read_starts(bmg_out) = write_starts(bmg)

\* C18: in the output of Bmg::write, under the Undefined encoding the slot
\* at 0x8 holds the block count and every section starts at a multiple of
\* 32 with zero bytes between sections; under every other encoding the
\* slot holds the total file size and every section starts right after the
\* one before; and Bmg::read on the output finds the sections where write
\* put them.
C18_SectionPlacement ==
    bmg_pc = "written" =>
        /\ \A i \in 1..Len(write_starts(bmg)) : SectionLies(i)
        /\ is_block_aligned(bmg) => SlotHoldsBlockCount /\ SectionsOnBlocks
        /\ ~is_block_aligned(bmg) => SlotHoldsFileSize /\ SectionsPacked
        /\ ReadFindsSections


-----------------------------------------------------------------------------
(* BMG: read on data whose header is wrong                                 *)
(* The data are files cut at a length of 8 bytes or more, with any of the  *)
(* eight bytes of the magic or the encoding byte overwritten.              *)

HeaderBases ==
    {FileOf("CP1252", <<FileInf1, FileDat1>>),
     FileOf("Undefined", <<FileInf1, FileDat1, FileMid1>>)}

HeaderCuts(base) == {8, 16, 17, 31, 32, Len(base)}

EncodingBytes == {0, 1, 2, 3, 4, 5, 6, 255}

\* Position 0 leaves the magic alone; 1..8 replaces that byte of it by "X".
WithMagicByte(data, pos) == IF pos = 0 THEN data ELSE Overwrite(data, pos - 1, <<88>>)

WithEncodingByte(data, b) == Overwrite(data, 16, <<b>>)

HeaderInputs ==
    UNION {{WithMagicByte(WithEncodingByte(SubSeq(base, 1, n), b), pos) :
               n \in HeaderCuts(base), b \in EncodingBytes, pos \in 0..8} :
           base \in HeaderBases}

InitBmgHeader ==
    /\ bmg_pc = "given"
    /\ bmg = None
    /\ appended = <<>>
    /\ bmg_in \in HeaderInputs
    /\ bmg_out = <<>>
    /\ bmg_ser = None

\* Bmg::read on the given data; bmg keeps the whole result.
ReadGiven ==
    /\ bmg_pc = "given"
    /\ bmg' = Bmg_read(bmg_in)
    /\ bmg_pc' = "read_over"
    /\ UNCHANGED <<appended, bmg_in, bmg_out, bmg_ser>>
    /\ UNCHANGED notBmg

NextBmgHeader == ReadGiven

MagicIsRight == Slice(bmg_in, 0, 8) = MESGbmg1

HasEncodingByte == InRange(bmg_in, 0, 17)

\* C17: Bmg::read fails with InvalidHeaderMagic when the first 8 bytes are
\* not "MESGbmg1"; otherwise it fails with InvalidTextEncoding carrying
\* the byte at offset 0x10 when that byte is not one of 0..4; and for each
\* of the five valid bytes b, to_byte(from_byte(b)) = b.
C17_HeaderErrors ==
    /\ bmg_pc = "read_over" =>
          /\ ~MagicIsRight => bmg = Err(<<"InvalidHeaderMagic">>)
          /\ (MagicIsRight /\ HasEncodingByte /\ bmg_in[17] \notin 0..4) =>
                 bmg = Err(<<"InvalidTextEncoding", bmg_in[17]>>)
          /\ bmg.ok => to_byte(bmg.val.header.encoding) = bmg_in[17]
    /\ \A b \in 0..4 : IsSome(from_byte(b)) /\ to_byte(Unwrap(from_byte(b))) = b

\* read has refused a whole file whose magic is right and whose encoding
\* byte is 5.
C17_Witness ==
    /\ bmg_pc = "read_over"
    /\ MagicIsRight
    /\ Len(bmg_in) > 32
    /\ bmg_in[17] = 5
    /\ bmg = Err(<<"InvalidTextEncoding", 5>>)


-----------------------------------------------------------------------------
(* BMG: the interchange form                                               *)

\* Bmg::messages: for each INF1 entry, the attributes in hex, the text
\* decoded from the string pool at the entry's offset, and the id at the
\* same index of the MID1 table when there is one. A slice or an index out
\* of range panics.
Bmg_messages(b) ==
    LET entries == b.text_index_table.messages
        strings == b.string_pool.strings
        text(i) == IF entries[i].text_offset > Len(strings) THEN Panic
                   ELSE TextEncoding_decode(b.header.encoding,
                            Slice(strings, entries[i].text_offset, Len(strings)))
        has_id(i) == ~IsSome(b.message_id_table)
                     \/ i <= Len(Unwrap(b.message_id_table).message_ids)
    IN  IF \E i \in 1..Len(entries) : ~text(i).ok \/ ~has_id(i) THEN Panic
        ELSE Ok([i \in 1..Len(entries) |->
                   [message |-> text(i).val,
                    index |-> IF IsSome(b.message_id_table)
                              THEN Some(Unwrap(b.message_id_table).message_ids[i])
                              ELSE None,
                    attributes |-> to_hex_string(entries[i].attributes)]])

\* Serialize for Bmg: the messages and the five fields of the metadata.
Bmg_serialize(b) ==
    LET messages == Bmg_messages(b) IN
    IF ~messages.ok THEN Panic
    ELSE Ok([metadata |->
                [encoding |-> b.header.encoding,
                 bmg_file_id |-> b.text_index_table.bmg_file_id,
                 default_color |-> b.text_index_table.default_color,
                 message_id_format |-> IF IsSome(b.message_id_table)
                                       THEN Some(Unwrap(b.message_id_table).format)
                                       ELSE None,
                 message_id_info |-> IF IsSome(b.message_id_table)
                                     THEN Some(Unwrap(b.message_id_table).info)
                                     ELSE None],
             messages |-> messages.val])

\* The files: one to MaxTexts messages of well-formed text under the file's
\* encoding, every entry with attributes of the same length, the sections
\* in the order INF1, DAT1, MID1, with or without an unknown section after
\* them, the header's unknown fields zero or not.
MaxTexts == 2

TextPool(enc) ==
    {<<>>,
     <<<<"Plain", CHOOSE p \in PlainPool(enc) : \A q \in PlainPool(enc) : q[1] >= p[1]>>>>,
     <<<<"Escape", <<170, 187, 204>>>>>>,
     <<<<"Escape", <<1, 2, 3, 4, 5, 6, 7, 8, 9>>>>>>}

RECURSIVE TextOffsets(_, _, _)
TextOffsets(enc, texts, offset) ==
    IF texts = <<>> THEN <<>>
    ELSE <<offset>> \o TextOffsets(enc, Tail(texts),
                                   offset + Len(MessageBytes(enc, Head(texts))))

TextInf1(enc, texts, attributes) ==
    TextIndexTable_write(
        [section_size |-> 16 + Len(texts) * (4 + Len(attributes)),
         num_entries |-> Len(texts), entry_size |-> 4 + Len(attributes),
         bmg_file_id |-> 7, default_color |-> 3, unk1 |-> 0,
         messages |-> [i \in 1..Len(texts) |->
                          [text_offset |-> TextOffsets(enc, texts, 0)[i],
                           attributes |-> attributes]]])

TextDat1(enc, texts) ==
    LET strings == Concat([i \in 1..Len(texts) |-> MessageBytes(enc, texts[i])]) IN
    StringPool_write([section_size |-> 8 + Len(strings), strings |-> strings])

TextMid1(texts) ==
    MessageIdTable_write([section_size |-> 16 + 4 * Len(texts),
                          num_messages |-> Len(texts), format |-> 2, info |-> 1,
                          message_ids |-> [i \in 1..Len(texts) |-> [id |-> i, sub_id |-> 2]]])

TextFile(enc, texts, attributes, with_mid1, unknown, unk) ==
    LET sections == <<TextInf1(enc, texts, attributes), TextDat1(enc, texts)>>
                    \o (IF with_mid1 THEN <<TextMid1(texts)>> ELSE <<>>)
                    \o [i \in 1..Len(unknown) |-> UnknownSection_write(unknown[i])]
    IN  Layout(BmgHeader_write([file_size |-> 32 + TotalLen(sections),
                                num_blocks |-> Len(sections),
                                encoding |-> enc, unk |-> unk]),
               enc = "Undefined", sections)

TextFiles ==
    UNION {{TextFile(enc, texts, attributes, with_mid1, unknown, unk) :
               texts \in SeqsUpTo(TextPool(enc), MaxTexts) \ {<<>>},
               attributes \in {<<>>, <<170, 187>>},
               with_mid1 \in BOOLEAN,
               unknown \in {<<>>, <<UnknownPool[1]>>},
               unk \in {Zeros(15), <<1>> \o Zeros(14)}} :
           enc \in Encodings}

InitBmgInterchange ==
    /\ bmg_pc = "file"
    /\ bmg = None
    /\ appended = <<>>
    /\ bmg_in \in TextFiles
    /\ bmg_out = <<>>
    /\ bmg_ser = None

\* serde's Serialize on the Bmg that read returned.
Serialize ==
    /\ bmg_pc = "read"
    /\ LET r == Bmg_serialize(bmg) IN
       IF r.ok THEN bmg_ser' = Some(r.val) /\ bmg_pc' = "serialized"
       ELSE bmg_ser' = bmg_ser /\ bmg_pc' = "serialize_panic"
    /\ UNCHANGED <<bmg, appended, bmg_in, bmg_out>>
    /\ UNCHANGED notBmg

\* serde's Deserialize: a Bmg built from the interchange form.
Deserialize ==
    /\ bmg_pc = "serialized"
    /\ LET r == Bmg_from(Unwrap(bmg_ser)) IN
       IF r.ok THEN bmg' = r.val /\ bmg_pc' = "rebuilt"
       ELSE bmg' = bmg /\ bmg_pc' = "rebuild_panic"
    /\ UNCHANGED <<appended, bmg_in, bmg_out, bmg_ser>>
    /\ UNCHANGED notBmg

WriteRebuilt ==
    /\ bmg_pc = "rebuilt"
    /\ bmg_out' = Bmg_write(bmg)
    /\ bmg_pc' = "reconstructed"
    /\ UNCHANGED <<bmg, appended, bmg_in, bmg_ser>>
    /\ UNCHANGED notBmg

NextBmgInterchange == ReadFile \/ Serialize \/ Deserialize \/ WriteRebuilt

\* C20: for any BMG file accepted by Bmg::read, the interchange form of
\* the decoded archive can be made, a Bmg can be built from it, and the
\* bytes that Bmg's write returns are the bytes of the original file.
C20_InterchangeReconstructs ==
    /\ bmg_pc \notin {"serialize_panic", "rebuild_panic"}
    /\ bmg_pc = "reconstructed" => bmg_out = bmg_in


-----------------------------------------------------------------------------
(* BMG: the messages of a built archive                                    *)

\* C25: for a Bmg built by any sequence of add_message calls, messages()
\* completes and returns one message per appended message, in append
\* order, the i-th with the text, the attribute bytes in hex and the id, or
\* absence of id, of the i-th appended message; no id is attached to a
\* message other than the one it was appended with.
C25_MessagesAsAppended ==
    (Built /\ OnlyAddMessage) =>
        /\ Bmg_messages(bmg).ok
        /\ Len(Bmg_messages(bmg).val) = Len(appended)
        /\ \A i \in 1..Len(appended) :
              /\ Bmg_messages(bmg).val[i].message = appended[i].message
              /\ Bmg_messages(bmg).val[i].attributes =
                    to_hex_string(AttributeBytes(appended[i]))
              /\ Bmg_messages(bmg).val[i].index = appended[i].index


-----------------------------------------------------------------------------
(* BMG: the lengths and the block count a written archive declares         *)

\* The length section i of the output declares, at offset 4 of the section.
DeclaredLength(i) == read_u32(bmg_out, write_starts(bmg)[i] + 4)

\* C27: after any sequence of builder operations on a new Bmg (none
\* included, attribute lengths that differ between messages included),
\* every declared byte length in the output of write() equals the number
\* of bytes emitted for it: each of INF1, DAT1 and MID1 declares the bytes
\* it occupies, and under an encoding other than Undefined the header's
\* total file size is the length of the whole output.
C27_DeclaredLengthsAreEmitted ==
    bmg_pc = "written" =>
        /\ \A i \in 1..Len(written_sections(bmg)) :
              DeclaredLength(i) = Len(written_sections(bmg)[i])
        /\ ~is_block_aligned(bmg) => read_u32(bmg_out, 8) = Len(bmg_out)

\* The Bmg that Bmg::read makes of the written bytes.
ReadBack == Bmg_read(bmg_out)

\* C28: after any sequence of builder operations on a new Bmg, the header's
\* block count is the number of sections write() emits, 2 for INF1 and
\* DAT1 plus 1 exactly when the message-id table is present, so that
\* Bmg::read of the written bytes goes over exactly the emitted sections
\* and yields the same messages.
C28_BlockCountIsSectionCount ==
    bmg_pc = "written" =>
        /\ bmg.header.num_blocks = 2 + (IF IsSome(bmg.message_id_table) THEN 1 ELSE 0)
        /\ read_u32(bmg_out, 12) = Len(written_sections(bmg))
        /\ ReadBack.ok
        /\ read_starts(bmg_out) = write_starts(bmg)
        /\ ReadBack.val.text_index_table.messages = bmg.text_index_table.messages
        /\ ReadBack.val.string_pool.strings = bmg.string_pool.strings
        /\ IsSome(ReadBack.val.message_id_table) = IsSome(bmg.message_id_table)
        /\ IsSome(bmg.message_id_table) =>
              Unwrap(ReadBack.val.message_id_table).message_ids =
                  Unwrap(bmg.message_id_table).message_ids


-----------------------------------------------------------------------------
(* BMG: the loop of decode on arbitrary message bytes                      *)

MaxData == 6

\* A terminator, a plain character, a tag length with room for a payload
\* and the escape character, which is also a tag length too large.
DataBytes == {0, 1, 4, 26}

InitDecodeLoop ==
    /\ text_pc = "loop"
    /\ text_enc \in Encodings
    /\ text_items = <<>>
    /\ text_in \in SeqsUpTo(DataBytes, MaxData)
    /\ text_lit = <<>> /\ text_out = <<>>
    /\ text_loop = LoopStart

Turn == decode_turn(codepoint_size(text_enc), text_in, text_loop)

\* A turn after which the loop goes on.
DecodeTurn ==
    /\ text_pc = "loop"
    /\ Turn.ok /\ ~Turn.val.break
    /\ text_loop' = Turn.val.loop
    /\ UNCHANGED <<text_pc, text_enc, text_items, text_in, text_lit, text_out>>
    /\ UNCHANGED notText

\* The turn that finds the terminator, and the String built after the loop.
DecodeBreak ==
    /\ text_pc = "loop"
    /\ Turn.ok /\ Turn.val.break
    /\ text_loop' = Turn.val.loop
    /\ text_lit' = decode_text(text_enc, Turn.val.loop.blocks)
    /\ text_pc' = "decoded"
    /\ UNCHANGED <<text_enc, text_items, text_in, text_out>>
    /\ UNCHANGED notText

\* A turn that panics.
DecodePanic ==
    /\ text_pc = "loop"
    /\ ~Turn.ok
    /\ text_pc' = "decode_panic"
    /\ UNCHANGED <<text_enc, text_items, text_in, text_lit, text_out, text_loop>>
    /\ UNCHANGED notText

NextDecodeLoop == DecodeTurn \/ DecodeBreak \/ DecodePanic

\* What the turn at hand reads.
CodepointReadable == text_loop.offset + codepoint_size(text_enc) <= Len(text_in)
CodepointAtCursor ==
    IF codepoint_size(text_enc) = 2 THEN read_u16(text_in, text_loop.offset)
    ELSE text_in[text_loop.offset + 1]
AtEscape == text_pc = "loop" /\ CodepointReadable /\ CodepointAtCursor = 26
TagLenReadable == text_loop.offset + codepoint_size(text_enc) + 1 <= Len(text_in)
TagLen == text_in[text_loop.offset + codepoint_size(text_enc) + 1]
AtCharacter ==
    text_pc = "loop" /\ CodepointReadable /\ CodepointAtCursor \notin {0, 26}

\* The bytes a block was cut from.
SourceBytes(enc, block) ==
    IF block[1] = "Text" THEN block[2]
    ELSE (IF codepoint_size(enc) = 2 THEN <<0, 26>> ELSE <<26>>)
         \o <<Len(block[2]) + 1 + codepoint_size(enc)>> \o block[2]
HasZeroCodepoint(enc, bytes) ==
    \E k \in 0..(Len(bytes) \div codepoint_size(enc)) - 1 :
        \A j \in 1..codepoint_size(enc) : bytes[k * codepoint_size(enc) + j] = 0
DecodeOver == text_pc \in {"decoded", "decode_panic"}

-----------------------------------------------------------------------------
(* BTI: colours                                                            *)
(* A Color is the sequence of its four bytes, red, green, blue, alpha.     *)

saturating_mul(a, b) == Min(a * b, 255)
saturating_add(a, b) == Min(a + b, 255)

swizzle_5_to_8(b) == AsU8(b * 2^3) + (b \div 2^2)
swizzle_6_to_8(b) == AsU8(b * 2^2) + (b \div 2^4)

rgb565_to_color(c) ==
    <<swizzle_5_to_8((c \div 2^11) % 2^5),
      swizzle_6_to_8((c \div 2^5) % 2^6),
      swizzle_5_to_8(c % 2^5),
      255>>

get_interpolated_cmpr_colors(c1b, c2b) ==
    LET c1 == rgb565_to_color(c1b)
        c2 == rgb565_to_color(c2b)
    IN  IF c1b > c2b
        THEN <<c1, c2,
               <<saturating_add(saturating_mul(2, c1[1]), c2[1]) \div 3,
                 saturating_add(saturating_mul(2, c1[2]), c2[2]) \div 3,
                 saturating_add(saturating_mul(2, c1[3]), c2[3]) \div 3,
                 255>>,
               <<saturating_add(c1[1], saturating_mul(2, c2[1])) \div 3,
                 saturating_add(c1[2], saturating_mul(2, c2[2])) \div 3,
                 saturating_add(c1[3], saturating_mul(2, c2[3])) \div 3,
                 255>> >>
        ELSE <<c1, c2,
               <<(c1[1] \div 2) + (c2[1] \div 2),
                 (c1[2] \div 2) + (c2[2] \div 2),
                 (c1[3] \div 2) + (c2[3] \div 2),
                 255>>,
               <<0, 0, 0, 0>> >>

-----------------------------------------------------------------------------
(* BTI: the palette-indexed blocks                                         *)
(* Formats 7, 8 and 9 are C4, C8 and C14X2.  A block decoder gives the     *)
(* colours of the block's pixels, or panics on indexing past the palette.  *)

BLOCK_DATA_SIZE == <<32, 32, 32, 32, 32, 32, 64, 32, 32, 32, 32>>

\* The index the decoder takes for pixel number i (from 0) of the block.
c4_color_index(img_data, offset, i) ==
    LET byte == img_data[offset + (i \div 2) + 1] IN
    IF i % 2 = 0 THEN byte \div 2^4 ELSE byte % 2^4

c8_color_index(img_data, offset, i) == img_data[offset + i + 1]

c14x2_color_index(img_data, offset, i) == read_u16(img_data, offset + i) % 2^14

\* if color_index > palette.len() { [0, 0, 0, 0] } else { palette[color_index] }
palette_color(palette, color_index) ==
    IF color_index > Len(palette) THEN Ok(<<0, 0, 0, 0>>)
    ELSE IF color_index >= Len(palette) THEN Panic
    ELSE Ok(palette[color_index + 1])

block_colors(lookups) ==
    IF \E i \in 1..Len(lookups) : ~lookups[i].ok THEN Panic
    ELSE Ok([i \in 1..Len(lookups) |-> lookups[i].val])

decode_c4_block(img_data, offset, block_data_size, palette) ==
    block_colors([i \in 1..(block_data_size * 2) |->
                     palette_color(palette, c4_color_index(img_data, offset, i - 1))])

decode_c8_block(img_data, offset, block_data_size, palette) ==
    block_colors([i \in 1..block_data_size |->
                     palette_color(palette, c8_color_index(img_data, offset, i - 1))])

decode_c14x2_block(img_data, offset, block_data_size, palette) ==
    block_colors([i \in 1..(block_data_size \div 2) |->
                     palette_color(palette, c14x2_color_index(img_data, offset, i - 1))])

decode_indexed_block(format, img_data, offset, palette) ==
    IF format = 7 THEN decode_c4_block(img_data, offset, BLOCK_DATA_SIZE[format + 1], palette)
    ELSE IF format = 8
    THEN decode_c8_block(img_data, offset, BLOCK_DATA_SIZE[format + 1], palette)
    ELSE decode_c14x2_block(img_data, offset, BLOCK_DATA_SIZE[format + 1], palette)

-----------------------------------------------------------------------------
(* BTI: steps                                                              *)

MaxPalette == 2

Channel5 == {0, 10, 16, 31}
Channel6 == {0, 33, 63}
Endpoints == {r * 2^11 + g * 2^5 + b : r \in Channel5, g \in Channel6, b \in Channel5}

PaletteOf(n) == [i \in 1..n |-> <<10 * i, 20 * i, 30 * i, 255>>]
BlockBytes == {0, 1, 2, 3, 18, 51, 255}
BlockOf(b0, b1) == <<b0, b1>> \o Zeros(30)

BtiIdle ==
    /\ bti_pc = "idle"
    /\ bti_in = None
    /\ bti_out = None

InitCmpr ==
    /\ bti_pc = "endpoints"
    /\ bti_in \in {[c1b |-> a, c2b |-> b] : a \in Endpoints, b \in Endpoints}
    /\ bti_out = None

InterpolateCmprColors ==
    /\ bti_pc = "endpoints"
    /\ bti_out' = get_interpolated_cmpr_colors(bti_in.c1b, bti_in.c2b)
    /\ bti_pc' = "interpolated"
    /\ UNCHANGED bti_in
    /\ UNCHANGED notBti

NextCmpr == InterpolateCmprColors

InitPalette ==
    /\ bti_pc = "block"
    /\ bti_in \in {[format |-> f, palette |-> PaletteOf(n), img_data |-> BlockOf(b0, b1),
                    offset |-> 0] :
                      f \in {7, 8, 9}, n \in 0..MaxPalette,
                      b0 \in BlockBytes, b1 \in BlockBytes}
    /\ bti_out = None

DecodeIndexedBlock ==
    /\ bti_pc = "block"
    /\ LET r == decode_indexed_block(bti_in.format, bti_in.img_data, bti_in.offset,
                                     bti_in.palette) IN
       IF r.ok
       THEN bti_out' = r.val /\ bti_pc' = "block_decoded"
       ELSE bti_out' = bti_out /\ bti_pc' = "block_panic"
    /\ UNCHANGED bti_in
    /\ UNCHANGED notBti

NextPalette == DecodeIndexedBlock

Blend(a, b, weight_a, weight_b) == (weight_a * a + weight_b * b) \div (weight_a + weight_b)

\* C9: with c0 and c1 the RGB565-decoded endpoints: when color0 > color1
\* the third ramp entry is the channel-wise (2*c0 + c1)/3 blend and the
\* fourth the (c0 + 2*c1)/3 blend, both opaque, without loss for any
\* channel value; when color0 <= color1 the third entry is the 50/50 blend
\* (either rounding of it) and the fourth is transparent black.
C9_CmprRamp ==
    bti_pc = "interpolated" =>
        LET c0 == rgb565_to_color(bti_in.c1b)
            c1 == rgb565_to_color(bti_in.c2b)
        IN  IF bti_in.c1b > bti_in.c2b
            THEN /\ bti_out[3] = <<Blend(c0[1], c1[1], 2, 1), Blend(c0[2], c1[2], 2, 1),
                                   Blend(c0[3], c1[3], 2, 1), 255>>
                 /\ bti_out[4] = <<Blend(c0[1], c1[1], 1, 2), Blend(c0[2], c1[2], 1, 2),
                                   Blend(c0[3], c1[3], 1, 2), 255>>
            ELSE /\ \A k \in 1..3 :
                        bti_out[3][k] \in {Blend(c0[k], c1[k], 1, 1),
                                           (c0[k] \div 2) + (c1[k] \div 2)}
                 /\ bti_out[3][4] = 255
                 /\ bti_out[4] = <<0, 0, 0, 0>>

\* The index of pixel number i (from 0) of the block that was given.
GivenIndex(i) ==
    IF bti_in.format = 7 THEN c4_color_index(bti_in.img_data, bti_in.offset, i)
    ELSE IF bti_in.format = 8 THEN c8_color_index(bti_in.img_data, bti_in.offset, i)
    ELSE c14x2_color_index(bti_in.img_data, bti_in.offset, i)

GivenPixels == IF bti_in.format = 7 THEN 64 ELSE IF bti_in.format = 8 THEN 32 ELSE 16

\* C10: in the three palette-indexed formats every pixel whose index is
\* out of range of the palette (index >= palette length, the length itself
\* included) decodes to transparent black and the decode continues; every
\* in-range index yields the palette colour at that index.
C10_OutOfRangeIsTransparent ==
    /\ bti_pc # "block_panic"
    /\ bti_pc = "block_decoded" =>
          /\ Len(bti_out) = GivenPixels
          /\ \A i \in 0..(GivenPixels - 1) :
                bti_out[i + 1] = IF GivenIndex(i) >= Len(bti_in.palette)
                                 THEN <<0, 0, 0, 0>>
                                 ELSE bti_in.palette[GivenIndex(i) + 1]


\* The i-th 16-bit big-endian word of the block, its top two bits dropped.
WordIndex(i) == read_u16(bti_in.img_data, bti_in.offset + 2 * i) % 2^14

\* C26: in the 14-bit indexed format, pixel i (0 <= i < 16) of a block takes
\* as palette index the low 14 bits of the i-th 16-bit big-endian word of
\* the block, the word at byte offset block_start + 2*i, so the 16 pixels
\* consume 16 words that do not overlap.
C26_C14x2WordPerPixel ==
    (bti_pc \in {"block_decoded", "block_panic"} /\ bti_in.format = 9) =>
        \A i \in 0..15 :
            /\ c14x2_color_index(bti_in.img_data, bti_in.offset, i) = WordIndex(i)
            /\ (bti_pc = "block_decoded" /\ palette_color(bti_in.palette, WordIndex(i)).ok) =>
                   bti_out[i + 1] = palette_color(bti_in.palette, WordIndex(i)).val


-----------------------------------------------------------------------------
(* BTI: the main loop of BtiImage::decode                                  *)
(* The loop is followed block by block.  A decoded pixel is held as the    *)
(* pair of the byte offset its block was decoded from and its position in  *)
(* the block decoder's result, so that the raster shows where each of its  *)
(* pixels came from.  The image data are taken to hold every block the     *)
(* loop reads.                                                             *)

BLOCK_WIDTHS == <<8, 8, 8, 4, 4, 4, 4, 8, 8, 4, 8>>
BLOCK_HEIGHTS == <<8, 4, 4, 4, 4, 4, 4, 8, 4, 4, 8>>

format_to_index(format) ==
    IF format = 8 THEN 7
    ELSE IF format = 9 THEN 8
    ELSE IF format = 10 THEN 9
    ELSE IF format = 14 THEN 10
    ELSE format

\* The number of pixels each block decoder returns.
pixels_per_block(format) ==
    LET block_data_size == BLOCK_DATA_SIZE[format + 1] IN
    IF format = 0 THEN block_data_size * 2              \* decode_i4_block
    ELSE IF format \in {1, 2} THEN block_data_size      \* decode_i8_block, decode_ia4_block
    ELSE IF format \in {3, 4, 5} THEN block_data_size \div 2
    ELSE IF format = 6 THEN 16                          \* decode_rgba32_block
    ELSE IF format = 7 THEN block_data_size * 2         \* decode_c4_block
    ELSE IF format = 8 THEN block_data_size             \* decode_c8_block
    ELSE IF format = 9 THEN block_data_size \div 2      \* decode_c14x2_block
    ELSE 64                                             \* decode_cmpr_block

decoded_pixels(format, offset) ==
    [i \in 1..pixels_per_block(format) |-> <<offset, i - 1>>]

\* The raster index pixel i of the block is written to, or -1 when the
\* pixel lies outside the image and is skipped.
target(format, width, height, block_x, block_y, i) ==
    LET x == block_x + (i % BLOCK_WIDTHS[format + 1])
        y == block_y + (i \div BLOCK_WIDTHS[format + 1])
    IN  IF x >= width \/ y >= height THEN -1 ELSE x + y * width

\* The for loop over decoded_pixels: later pixels overwrite earlier ones.
scatter(decoded_data, pixels, format, width, height, block_x, block_y) ==
    [k \in 1..Len(decoded_data) |->
        LET hits == {i \in 0..(Len(pixels) - 1) :
                        target(format, width, height, block_x, block_y, i) = k - 1}
        IN  IF hits = {} THEN decoded_data[k]
            ELSE pixels[(CHOOSE i \in hits : \A j \in hits : j <= i) + 1]]

\* How many times the for loop writes each raster index.
scatter_count(pixels, format, width, height, block_x, block_y, k) ==
    Cardinality({i \in 0..(Len(pixels) - 1) :
                    target(format, width, height, block_x, block_y, i) = k})

\* A variant that wraps to the next row of blocks only once block_x has
\* passed the width.
next_block_late(format, width, block_x, block_y) ==
    IF block_x + BLOCK_WIDTHS[format + 1] > width
    THEN <<0, block_y + BLOCK_HEIGHTS[format + 1]>>
    ELSE <<block_x + BLOCK_WIDTHS[format + 1], block_y>>

\* block_x += BLOCK_WIDTHS[format]; if block_x >= width { block_x = 0; block_y += ... }
next_block(format, width, block_x, block_y) ==
    IF block_x + BLOCK_WIDTHS[format + 1] >= width
    THEN <<0, block_y + BLOCK_HEIGHTS[format + 1]>>
    ELSE <<block_x + BLOCK_WIDTHS[format + 1], block_y>>

MaxSide == 9

KnownRawFormats == {0, 1, 2, 3, 4, 5, 6, 8, 9, 10, 14}

RawFormats == KnownRawFormats \cup {7, 11, 13, 15, 255}

InitImage ==
    /\ bti_pc = "image"
    /\ bti_in \in {[format |-> f, width |-> w, height |-> h] :
                      f \in RawFormats, w \in 1..MaxSide, h \in 1..MaxSide}
    /\ bti_out = None

\* decode up to the loop: the header fields, the block sizes of the format
\* (an index past the three tables panics), the raster of [0, 0, 0, 0].
DecodeHeader ==
    /\ bti_pc = "image"
    /\ LET format == format_to_index(bti_in.format) IN
       IF format >= Len(BLOCK_WIDTHS)
       THEN bti_pc' = "decode_panic" /\ bti_out' = bti_out
       ELSE /\ bti_pc' = "loop"
            /\ bti_out' = [format |-> format, width |-> bti_in.width,
                           height |-> bti_in.height,
                           offset |-> 0, block_x |-> 0, block_y |-> 0,
                           decoded_data |-> [k \in 1..(bti_in.width * bti_in.height) |->
                                                <<0, 0, 0, 0>>],
                           writes |-> [k \in 1..(bti_in.width * bti_in.height) |-> 0],
                           origins |-> <<>>]
    /\ UNCHANGED bti_in
    /\ UNCHANGED notBti

\* One turn of the while loop.
DecodeBlock ==
    /\ bti_pc = "loop"
    /\ bti_out.block_y < bti_out.height
    /\ LET o == bti_out
           pixels == decoded_pixels(o.format, o.offset)
           next == next_block(o.format, o.width, o.block_x, o.block_y)
       IN  bti_out' =
             [o EXCEPT
                !.decoded_data = scatter(@, pixels, o.format, o.width, o.height,
                                         o.block_x, o.block_y),
                !.writes = [k \in 1..Len(@) |->
                               @[k] + scatter_count(pixels, o.format, o.width, o.height,
                                                    o.block_x, o.block_y, k - 1)],
                !.origins = Append(@, <<o.block_x, o.block_y>>),
                !.offset = @ + BLOCK_DATA_SIZE[o.format + 1],
                !.block_x = next[1],
                !.block_y = next[2]]
    /\ UNCHANGED <<bti_pc, bti_in>>
    /\ UNCHANGED notBti

\* The loop's exit: the BtiImage is returned.
DecodeDone ==
    /\ bti_pc = "loop"
    /\ bti_out.block_y >= bti_out.height
    /\ bti_pc' = "image_decoded"
    /\ UNCHANGED <<bti_in, bti_out>>
    /\ UNCHANGED notBti

NextImage == DecodeHeader \/ DecodeBlock \/ DecodeDone

\* C21: decode fails, producing no image, for every raw format byte that
\* is not one of the eleven known codes 0x0..0x6, 0x8, 0x9, 0xA, 0xE; the
\* remapping sends 0x8, 0x9, 0xA, 0xE to 7, 8, 9, 10; and no raw byte
\* outside the eleven known codes is decoded as one of the eleven formats.
C21_UnknownFormatFails ==
    /\ (bti_pc \in {"loop", "image_decoded", "decode_panic"}
           /\ bti_in.format \notin KnownRawFormats) => bti_pc = "decode_panic"
    /\ format_to_index(8) = 7 /\ format_to_index(9) = 8
    /\ format_to_index(10) = 9 /\ format_to_index(14) = 10
    /\ \A raw \in 0..255 :
          raw \notin KnownRawFormats => format_to_index(raw) \notin 0..10


BlockW == BLOCK_WIDTHS[bti_out.format + 1]
BlockH == BLOCK_HEIGHTS[bti_out.format + 1]
BlocksWide == (bti_out.width + BlockW - 1) \div BlockW
BlocksTall == (bti_out.height + BlockH - 1) \div BlockH

\* The number, from 0 in tile order, of the block that covers (x, y).
BlockNumberAt(x, y) == (y \div BlockH) * BlocksWide + (x \div BlockW)

-----------------------------------------------------------------------------
(* Specifications: one per codec, the other codecs idle                    *)

InitRarcSpec == InitRarc /\ TextIdle /\ BmgIdle /\ BtiIdle
SpecRarc == InitRarcSpec /\ [][NextRarc]_vars

InitTextSpec == InitText /\ RarcIdle /\ BmgIdle /\ BtiIdle
SpecText == InitTextSpec /\ [][NextText]_vars

InitBmgSpec == InitBmg /\ RarcIdle /\ TextIdle /\ BtiIdle
SpecBmg == InitBmgSpec /\ [][NextBmg]_vars

InitBmgFileSpec == InitBmgFile /\ RarcIdle /\ TextIdle /\ BtiIdle
SpecBmgFile == InitBmgFileSpec /\ [][NextBmgFile]_vars

InitCmprSpec == InitCmpr /\ RarcIdle /\ TextIdle /\ BmgIdle
SpecCmpr == InitCmprSpec /\ [][NextCmpr]_vars

InitPaletteSpec == InitPalette /\ RarcIdle /\ TextIdle /\ BmgIdle
SpecPalette == InitPaletteSpec /\ [][NextPalette]_vars

InitRarcParseSpec == InitRarcParse /\ TextIdle /\ BmgIdle /\ BtiIdle
SpecRarcParse == InitRarcParseSpec /\ [][NextRarcParse]_vars

InitBmgHeaderSpec == InitBmgHeader /\ RarcIdle /\ TextIdle /\ BtiIdle
SpecBmgHeader == InitBmgHeaderSpec /\ [][NextBmgHeader]_vars

InitBmgInterchangeSpec == InitBmgInterchange /\ RarcIdle /\ TextIdle /\ BtiIdle
SpecBmgInterchange == InitBmgInterchangeSpec /\ [][NextBmgInterchange]_vars


InitImageSpec == InitImage /\ RarcIdle /\ TextIdle /\ BmgIdle
SpecImage == InitImageSpec /\ [][NextImage]_vars


InitDecodeLoopSpec == InitDecodeLoop /\ RarcIdle /\ BmgIdle /\ BtiIdle
SpecDecodeLoop ==
    InitDecodeLoopSpec /\ [][NextDecodeLoop]_vars /\ WF_vars(NextDecodeLoop)


InitRarcFilesSpec == InitRarcFiles /\ TextIdle /\ BmgIdle /\ BtiIdle
SpecRarcFiles == InitRarcFilesSpec /\ [][NextRarcFiles]_vars

====
